---------------------------- MODULE Spec2Model ----------------------------
(***************************************************************************)
(* A model of the collaborative editor's synchronisation engine:           *)
(*   backend/crdt.py              the document (class CRDT, class Operation)*)
(*   backend/main.py              the connection handlers                   *)
(*   backend/websocket_manager.py the connection hub                        *)
(*   backend/room_manager.py      the rooms and their users                 *)
(*   backend/redis_service.py     the bridge to the broker                  *)
(*                                                                         *)
(* A text is a sequence of one-character strings.  An Operation is a       *)
(* record with the fields of the dataclass (crdt.py 12-20); its timestamp  *)
(* is the reading of a clock that ticks once per operation received.       *)
(* position_is_int says whether the position is a Python int:              *)
(* Operation.from_dict (crdt.py 34-43) copies whatever JSON value the      *)
(* client sent, so it may be None or a string.                             *)
(*                                                                         *)
(* Several specifications share the module.  Spec drives one CRDT object   *)
(* through the methods that change it, as the unit tests do, and SpecDoc   *)
(* through the reading methods as well.  SpecRoom runs the server process: *)
(* one task per websocket, each step of a task running from one await to   *)
(* the next, the tasks interleaved at their awaits.  SpecJoined runs the   *)
(* message loops of three tasks whose clients have joined one room.        *)
(* SpecHub drives the ConnectionManager through its methods, one call at a *)
(* time, SpecRegistry the RoomManager and SpecBridge the RedisPubSub.       *)
(* SpecPair runs the message loops of two joined clients whose room may be *)
(* deleted, SpecArrival a third client arriving while two are in a room,   *)
(* and FairCluster the process next to a peer process that publishes.      *)
(* SpecSubmit is SpecJoined with operations that cannot be applied among   *)
(* the messages, SpecJoin is SpecArrival with no client going away.        *)
(***************************************************************************)
EXTENDS Integers, Sequences, FiniteSets, TLC

VARIABLES
    crdt,       \* one CRDT object driven through its public methods
    history,    \* the calls made on crdt so far, each with what it returned
    observed,   \* the last call that only reads or that is made on the hub
                \* directly, with what it returned
    rooms,                \* room_manager.rooms: room id -> Room
    active_connections,   \* connection_manager: room id -> set of websockets
    connection_users,     \* connection_manager: websocket -> user id
    connection_rooms,     \* connection_manager: websocket -> room id
    generation,     \* per room id, how often its connection set was deleted
    redis_client,   \* whether redis_pubsub.redis_client is set
    redis_pubsub,   \* redis_pubsub: its listeners, its subscriptions, its loop
    task,           \* per websocket, where its websocket_endpoint task stands
    clock,          \* time.time(), read when an Operation is built
    client,         \* per websocket, the client's end of the connection
    inbox,          \* per websocket, what the client sent and is not yet received
    received        \* per websocket, what the client was sent, in order

docVars == <<crdt, history, observed>>
serverVars == <<rooms, active_connections, connection_users, connection_rooms,
                generation, redis_client, redis_pubsub, task, clock, received>>
clientVars == <<client, inbox>>
vars == <<crdt, history, observed, rooms, active_connections, connection_users,
          connection_rooms, generation, redis_client, redis_pubsub, task,
          clock, client,
          inbox, received>>

---------------------------------------------------------------------------
(* Bounds of the model *)

\* longest payload of an operation, and longest text given to set_content
MaxPayload == 2
\* largest position a caller submits
MaxPos == 2
\* number of calls made on the document
MaxOps == 2

Chars == {"a", "b"}
Clients == {"user1", "user2"}
OpTypes == {"insert", "delete", "replace"}

\* the last element of a sequence
Last(s) == s[Len(s)]

Min(a, b) == IF a <= b THEN a ELSE b
Max(a, b) == IF a >= b THEN a ELSE b

\* the texts of at most n characters
Texts(n) == UNION {[1..k -> Chars] : k \in 0..n}

\* the operations a caller may hand to apply_operation: any kind (one of them
\* is neither insert nor delete), any position from -1 up, any payload, and
\* for each kind and client one operation whose position is not an int
Operations ==
    [op_type : OpTypes, position : -1..MaxPos, position_is_int : {TRUE},
     content : Texts(MaxPayload), client_id : Clients, timestamp : {0},
     version : {0}]
    \cup
    [op_type : OpTypes, position : {0}, position_is_int : {FALSE},
     content : {<<"a">>}, client_id : Clients, timestamp : {0}, version : {0}]

---------------------------------------------------------------------------
(* crdt.py *)

\* CRDT.__init__
NewCRDT(document_id) ==
    [document_id |-> document_id, content |-> <<>>, operations |-> <<>>,
     version |-> 0, client_versions |-> <<>>]

\* Python's s[:n] and s[n:] for 0 <= n <= len(s)
Prefix(s, n) == SubSeq(s, 1, n)
Suffix(s, n) == SubSeq(s, n + 1, Len(s))

\* ClientVersion with a client that never submitted taken to be up to date
ClientVersionDefaultsToLatest(doc, client_id) ==
    IF client_id \in DOMAIN doc.client_versions
    THEN doc.client_versions[client_id] ELSE doc.version

\* self.client_versions.get(client_id, 0)
ClientVersion(doc, client_id) ==
    IF client_id \in DOMAIN doc.client_versions
    THEN doc.client_versions[client_id] ELSE 0

\* the list comprehension of _transform_operation
ConcurrentOps(doc, operation) ==
    SelectSeq(doc.operations,
              LAMBDA op : op.version > ClientVersion(doc, operation.client_id))

\* ShiftBy with the insert test strict: an insert at the running position
\* itself no longer shifts it
ShiftByStrictInsert(concurrent_op, transformed_position) ==
    IF concurrent_op.op_type = "insert"
    THEN IF concurrent_op.position < transformed_position
         THEN transformed_position + Len(concurrent_op.content)
         ELSE transformed_position
    ELSE IF concurrent_op.op_type = "delete"
    THEN IF concurrent_op.position < transformed_position
         THEN transformed_position
              - Min(Len(concurrent_op.content),
                    transformed_position - concurrent_op.position)
         ELSE transformed_position
    ELSE transformed_position

\* one round of the loop over concurrent_ops
ShiftBy(concurrent_op, transformed_position) ==
    IF concurrent_op.op_type = "insert"
    THEN IF concurrent_op.position <= transformed_position
         THEN transformed_position + Len(concurrent_op.content)
         ELSE transformed_position
    ELSE IF concurrent_op.op_type = "delete"
    THEN IF concurrent_op.position < transformed_position
         THEN transformed_position
              - Min(Len(concurrent_op.content),
                    transformed_position - concurrent_op.position)
         ELSE transformed_position
    ELSE transformed_position

\* the loop over concurrent_ops, in list order
RECURSIVE TransformPosition(_, _)
TransformPosition(concurrent_ops, transformed_position) ==
    IF concurrent_ops = <<>> THEN transformed_position
    ELSE TransformPosition(Tail(concurrent_ops),
                           ShiftBy(Head(concurrent_ops), transformed_position))

\* _transform_operation raises TypeError when the position is not an int:
\* at the first comparison with a logged position, or at max(0, ...)
TransformRaises(doc, operation) == ~operation.position_is_int

\* CRDT._transform_operation, for an operation it does not raise on
TransformOperation(doc, operation) ==
    [op_type |-> operation.op_type,
     position |-> Max(0, TransformPosition(ConcurrentOps(doc, operation),
                                           operation.position)),
     position_is_int |-> TRUE,
     content |-> operation.content,
     client_id |-> operation.client_id,
     timestamp |-> operation.timestamp,
     version |-> 0]

\* InsertText that always appends
InsertTextAtEnd(content, transformed_op) ==
    content \o transformed_op.content

\* the insert branch of apply_operation
InsertText(content, transformed_op) ==
    LET pos == Min(transformed_op.position, Len(content))
    IN  Prefix(content, pos) \o transformed_op.content \o Suffix(content, pos)

\* DeleteText that cuts the text at the start of the span
DeleteTextToEnd(content, transformed_op) ==
    Prefix(content, Min(transformed_op.position, Len(content)))

\* the delete branch of apply_operation
DeleteText(content, transformed_op) ==
    LET start == Min(transformed_op.position, Len(content))
        length == Len(transformed_op.content)
        end == Min(start + length, Len(content))
    IN  Prefix(content, start) \o Suffix(content, end)

\* EditText whose delete branch is never taken
EditTextInsertOnly(content, transformed_op) ==
    IF transformed_op.op_type = "insert" THEN InsertText(content, transformed_op)
    ELSE content

\* the if/elif of apply_operation: any other kind leaves the text alone
EditText(content, transformed_op) ==
    IF transformed_op.op_type = "insert" THEN InsertText(content, transformed_op)
    ELSE IF transformed_op.op_type = "delete" THEN DeleteText(content, transformed_op)
    ELSE content

\* SetClientVersion that forgets the other clients
SetClientVersionAlone(client_versions, client_id, version) ==
    [c \in {client_id} |-> version]

\* self.client_versions[client_id] = version
SetClientVersion(client_versions, client_id, version) ==
    [c \in DOMAIN client_versions \cup {client_id} |->
        IF c = client_id THEN version ELSE client_versions[c]]

\* Track that logs the operation at its submitted position, not at the
\* transformed one
TrackLogsSubmitted(doc, operation, transformed_op, content) ==
    LET version == doc.version + 1
    IN  [doc EXCEPT
            !.content = content,
            !.version = version,
            !.operations = Append(@, [transformed_op EXCEPT
                                         !.version = version,
                                         !.position = Max(0, operation.position)]),
            !.client_versions = SetClientVersion(@, operation.client_id, version)]

\* the version tracking of apply_operation
Track(doc, operation, transformed_op, content) ==
    LET version == doc.version + 1
    IN  [doc EXCEPT
            !.content = content,
            !.version = version,
            !.operations = Append(@, [transformed_op EXCEPT !.version = version]),
            !.client_versions = SetClientVersion(@, operation.client_id, version)]

\* CRDT.apply_operation: the document afterwards and the value returned.
\* An exception leaves the try block before anything is assigned.
ApplyOperation(doc, operation) ==
    IF TransformRaises(doc, operation)
    THEN [crdt |-> doc, ret |-> FALSE]
    ELSE LET transformed_op == TransformOperation(doc, operation)
         IN  [crdt |-> Track(doc, operation, transformed_op,
                             EditText(doc.content, transformed_op)),
              ret |-> TRUE]

\* get_operations_since that counts the entry of the version itself
GetOperationsSinceInclusive(doc, version) ==
    SelectSeq(doc.operations, LAMBDA op : op.version >= version)

\* get_operations_since that returns the whole log
GetOperationsSinceWholeLog(doc, version) == doc.operations

\* CRDT.get_operations_since
GetOperationsSince(doc, version) ==
    SelectSeq(doc.operations, LAMBDA op : op.version > version)

\* CRDT.get_state
GetState(doc) ==
    [documentId |-> doc.document_id, content |-> doc.content,
     version |-> doc.version]

\* set_content that leaves the version alone
SetContentKeepsVersion(doc, content) ==
    [doc EXCEPT !.content = content]

\* set_content that starts the log afresh
SetContentClearsLog(doc, content) ==
    [doc EXCEPT !.content = content, !.version = @ + 1, !.operations = <<>>]

\* CRDT.set_content
SetContent(doc, content) ==
    [doc EXCEPT !.content = content, !.version = @ + 1]

---------------------------------------------------------------------------
(* Bounds and inputs of the server model *)

\* number of messages the clients send, all together
MaxInbound == 2
\* largest position in an operation a client sends
MaxWirePos == 1
\* longest payload in an operation a client sends
MaxWirePayload == 1
\* number of clients that go away
MaxCloses == 1

Sockets == {"w1", "w2"}
\* a third connection, for the runs that begin with a full room
Listener == "w3"
Connections == Sockets \cup {Listener}
\* the rooms created through POST /api/rooms before the clients arrive
RoomIds == {"r1"}
\* a room id no room was created under
UnknownRoom == "r0"
\* exclude=None
NoSocket == "none"

\* no call observed yet, or none since the document was last changed
NoCall == [call |-> "none"]

\* Python's None and an int n, where an Optional[int] is expected
None == <<>>
Some(n) == <<n>>

\* dict[key] = value, dict.pop(key, None) and dict.get(key, default)
Put(dict, key, value) ==
    [k \in DOMAIN dict \cup {key} |-> IF k = key THEN value ELSE dict[k]]
Pop(dict, key) == [k \in DOMAIN dict \ {key} |-> dict[k]]
Get(dict, key, default) == IF key \in DOMAIN dict THEN dict[key] ELSE default
EmptyDict == [k \in {} |-> 0]

\* the operation dicts a client sends: an insert or a delete of a run of
\* "a", and a dict that leaves the kind and the position out
WireOperations ==
    [type : {"insert", "delete"}, position : 0..MaxWirePos,
     content : {[i \in 1..n |-> "a"] : n \in 1..MaxWirePayload}, version : {0}]
    \cup
    {[content |-> <<"a">>, version |-> 0]}

\* a JSON value that is not an object (a string, a number, a list) is
\* written [scalar |-> ...]; every other record is a JSON object
IsObject(data) == "scalar" \notin DOMAIN data

\* messages of a client that are not what the protocol describes: a JSON
\* string, an operation that is a JSON string, an object without a type
MalformedMessages ==
    {[scalar |-> "hello"],
     [type |-> "operation", operation |-> [scalar |-> "insert"]],
     [position |-> 1]}

\* an operation message whose position is a JSON string: the dict says so
\* in position_is_int, as an Operation does
UntypedMessages ==
    {[type |-> "operation",
      operation |-> [type |-> "insert", position |-> 0,
                     position_is_int |-> FALSE, content |-> <<"a">>,
                     version |-> 0]]}

\* the messages a client sends
InboundMessages ==
    {[type |-> "operation", operation |-> d] : d \in WireOperations}
    \cup {[type |-> "cursor", position |-> 1, selectionStart |-> 0],
          [type |-> "ping"],
          [type |-> "hello"]}

---------------------------------------------------------------------------
(* crdt.py: Operation.to_dict and Operation.from_dict *)

\* Operation.to_dict
ToDict(operation) ==
    [type |-> operation.op_type, position |-> operation.position,
     content |-> operation.content, clientId |-> operation.client_id,
     timestamp |-> operation.timestamp, version |-> operation.version]

\* Operation.from_dict; now is what time.time() returns. The position is
\* taken as the dict gives it, an int or not
FromDict(data, now) ==
    [op_type |-> Get(data, "type", "insert"),
     position |-> Get(data, "position", 0),
     position_is_int |-> Get(data, "position_is_int", TRUE),
     content |-> Get(data, "content", <<>>),
     client_id |-> Get(data, "clientId", ""),
     timestamp |-> Get(data, "timestamp", now),
     version |-> Get(data, "version", 0)]

---------------------------------------------------------------------------
(* redis_service.py *)

\* the channels of the rooms
Channels == {"room:r1", "room:r2"}

\* the handlers given to subscribe: one that returns and one that raises
Handlers == {"returns", "raises"}

\* json.dumps(value): a JSON text is written as the sequence of the one
\* value it stands for
JsonDumps(value) == Some(value)

\* a text that is no JSON
NoJson == None

\* json.loads(data): the value, or JSONDecodeError
JsonLoads(data) ==
    IF data = NoJson THEN [raised |-> TRUE]
    ELSE [raised |-> FALSE, value |-> data[1]]

\* the payloads of the messages of a channel
Payloads == {JsonDumps([type |-> "operation"]), NoJson}

\* the types of what pubsub.listen() yields: a published message, and the
\* confirmation of a subscription
MessageTypes == {"message", "subscribe"}

\* RedisPubSub()
NewRedisPubSub ==
    [listeners |-> EmptyDict, subscribed |-> {}, running |-> FALSE,
     listening |-> FALSE]

\* RedisPubSub.listen up to its loop
Listen(pubsub) == [pubsub EXCEPT !.running = TRUE, !.listening = TRUE]

\* redis_pubsub after startup_event: the loop of listen runs when connect()
\* has returned
Started(connected) ==
    IF connected THEN Listen(NewRedisPubSub) ELSE NewRedisPubSub

\* RedisPubSub.subscribe
Subscribe(pubsub, channel, handler) ==
    [pubsub EXCEPT !.subscribed = @ \cup {channel},
                   !.listeners = Put(@, channel, handler)]

\* RedisPubSub.unsubscribe
Unsubscribe(pubsub, channel) ==
    [pubsub EXCEPT !.subscribed = @ \ {channel},
                   !.listeners = Pop(@, channel)]

\* RedisPubSub.disconnect: the connections are closed, and the loop of
\* listen ends at the next message it is given
DisconnectRedis(pubsub) ==
    [pubsub EXCEPT !.running = FALSE, !.subscribed = {}]

\* one round of the loop of listen that knows no inner try: what the handler
\* or json.loads raises ends the loop
ListenRoundUnguarded(pubsub, message) ==
    IF ~pubsub.running
    THEN [pubsub |-> [pubsub EXCEPT !.listening = FALSE], outcome |-> "stopped"]
    ELSE IF message.type # "message"
            \/ message.channel \notin DOMAIN pubsub.listeners
    THEN [pubsub |-> pubsub, outcome |-> "skipped"]
    ELSE IF JsonLoads(message.data).raised
            \/ pubsub.listeners[message.channel] = "raises"
    THEN [pubsub |-> [pubsub EXCEPT !.listening = FALSE], outcome |-> "raised"]
    ELSE [pubsub |-> pubsub, outcome |-> "handled"]

\* one round of the loop of listen, for a message the broker has sent: the
\* object afterwards and what became of the message
ListenRound(pubsub, message) ==
    IF ~pubsub.running
    THEN [pubsub |-> [pubsub EXCEPT !.listening = FALSE], outcome |-> "stopped"]
    ELSE IF message.type # "message"
            \/ message.channel \notin DOMAIN pubsub.listeners
    THEN [pubsub |-> pubsub, outcome |-> "skipped"]
    ELSE IF JsonLoads(message.data).raised
    THEN [pubsub |-> pubsub, outcome |-> "undecodable"]
    ELSE IF pubsub.listeners[message.channel] = "raises"
    THEN [pubsub |-> pubsub, outcome |-> "raised"]
    ELSE [pubsub |-> pubsub, outcome |-> "handled"]

\* what the broker does with a message published on a channel: it sends it
\* to the connections subscribed to the channel, where the loop of listen
\* takes it
Relay(pubsub, channel, data) ==
    IF pubsub.listening /\ channel \in pubsub.subscribed
    THEN ListenRound(pubsub, [type |-> "message", channel |-> channel,
                              data |-> data])
    ELSE [pubsub |-> pubsub, outcome |-> "not sent"]

---------------------------------------------------------------------------
(* room_manager.py *)

\* User(user_id=..., username=..., color=...), built at time now
NewUser(user_id, now) ==
    [user_id |-> user_id, cursor_position |-> 0,
     selection_start |-> None, selection_end |-> None, last_active |-> now]

\* Room(room_id=...) and Room.__post_init__, built at time now
NewRoom(room_id, now) ==
    [room_id |-> room_id, created_at |-> now, users |-> EmptyDict,
     crdt |-> NewCRDT(room_id)]

\* Room.add_user
AddUser(room, user) == [room EXCEPT !.users = Put(@, user.user_id, user)]

\* Room.remove_user: the room afterwards
RemoveUser(room, user_id) == [room EXCEPT !.users = Pop(@, user_id)]

\* Room.update_user_cursor that leaves the time of the last activity alone
UpdateUserCursorStale(room, user_id, position, selection_start, selection_end, now) ==
    IF user_id \in DOMAIN room.users
    THEN [room EXCEPT !.users[user_id] =
             [@ EXCEPT !.cursor_position = position,
                       !.selection_start = selection_start,
                       !.selection_end = selection_end]]
    ELSE room

\* Room.update_user_cursor at time now: the room afterwards
UpdateUserCursor(room, user_id, position, selection_start, selection_end, now) ==
    IF user_id \in DOMAIN room.users
    THEN [room EXCEPT !.users[user_id] =
             [@ EXCEPT !.cursor_position = position,
                       !.selection_start = selection_start,
                       !.selection_end = selection_end,
                       !.last_active = now]]
    ELSE room

\* Room.update_user_cursor: what it returns
UpdateUserCursorResult(room, user_id) == user_id \in DOMAIN room.users

\* the window of get_active_users, in seconds
ActiveSeconds == 300

\* Room.get_active_users at time now: the ids of the users it returns
GetActiveUsers(room, now) ==
    {user_id \in DOMAIN room.users :
        now - room.users[user_id].last_active < ActiveSeconds}

\* RoomManager.create_room at time now, _generate_room_id having drawn
\* room_id
CreateRoom(registry, room_id, now) == Put(registry, room_id, NewRoom(room_id, now))

\* RoomManager.delete_room: the registry afterwards
DeleteRoom(registry, room_id) ==
    IF room_id \in DOMAIN registry THEN Pop(registry, room_id) ELSE registry

\* RoomManager.delete_room: what it returns
DeleteRoomResult(registry, room_id) == room_id \in DOMAIN registry

\* the seconds in an hour, as cleanup_inactive_rooms counts them
SecondsPerHour == 3600

\* RoomManager.cleanup_inactive_rooms at time now: the rooms it finds
\* inactive
InactiveRooms(registry, max_age_hours, now) ==
    {room_id \in DOMAIN registry :
        /\ now - registry[room_id].created_at > max_age_hours * SecondsPerHour
        /\ Cardinality(GetActiveUsers(registry[room_id], now)) = 0}

\* RoomManager.cleanup_inactive_rooms: the registry afterwards
CleanupInactiveRooms(registry, max_age_hours, now) ==
    [room_id \in DOMAIN registry \ InactiveRooms(registry, max_age_hours, now)
        |-> registry[room_id]]

\* RoomManager.cleanup_inactive_rooms: what it returns
CleanupInactiveRoomsResult(registry, max_age_hours, now) ==
    Cardinality(InactiveRooms(registry, max_age_hours, now))

---------------------------------------------------------------------------
(* The server process.
   S is the state of the process, a record of the variables above and of
   the clients' ends (which the server reads when it sends).  The operators
   below run one task from where it stands to its next await and give the
   set of states it may suspend in. *)

\* secrets.token_urlsafe(8): one fresh user id per connection
UserId(websocket) ==
    IF websocket = "w1" THEN "user1"
    ELSE IF websocket = "w2" THEN "user2" ELSE "user3"

NoIterator == [used |-> 0, generation |-> 0, initial |-> {}, visited |-> {}]

\* a task that has not been started
NewTask ==
    [pc |-> "start", room_id |-> "", in_try |-> FALSE, then |-> "",
     message |-> EmptyDict, exclude |-> NoSocket, iterator |-> NoIterator,
     disconnected |-> <<>>]

\* the task of websocket suspends at pc
Suspend(S, websocket, pc) == {[S EXCEPT !.task[websocket].pc = pc]}

\* an exception nothing catches ends the task
Die(S, websocket) == Suspend(S, websocket, "failed")

\* what send_json may do: on a connection whose client is gone it raises
\* or drops the message, depending on the server library; otherwise the
\* message is delivered
SendOutcomes(S, websocket) ==
    IF S.client[websocket].state = "open" THEN {"delivered"}
    ELSE {"raised", "dropped"}

\* the message is delivered to the client of websocket
Deliver(S, websocket, message) ==
    [S EXCEPT !.received[websocket] = Append(@, message)]

\* a registration that replaces the room's connections by the new one
RegisterAlone(S, websocket, room_id, user_id) ==
    [S EXCEPT
        !.active_connections = Put(@, room_id, {websocket}),
        !.connection_users = Put(@, websocket, user_id),
        !.connection_rooms = Put(@, websocket, room_id)]

\* a registration that puts the connection into the set of every room
RegisterEverywhere(S, websocket, room_id, user_id) ==
    [S EXCEPT
        !.active_connections =
            [r \in DOMAIN S.rooms \cup {room_id} |->
                Get(S.active_connections, r, {}) \cup {websocket}],
        !.connection_users = Put(@, websocket, user_id),
        !.connection_rooms = Put(@, websocket, room_id)]

\* the registration of ConnectionManager.connect, after the accept
Register(S, websocket, room_id, user_id) ==
    [S EXCEPT
        !.active_connections =
            Put(@, room_id, Get(@, room_id, {}) \cup {websocket}),
        !.connection_users = Put(@, websocket, user_id),
        !.connection_rooms = Put(@, websocket, room_id)]

\* disconnect that keeps the connection's user
DisconnectKeepsUser(S, websocket) ==
    LET known == websocket \in DOMAIN S.connection_rooms
        room_id == IF known THEN S.connection_rooms[websocket] ELSE ""
        popped == [S EXCEPT !.connection_rooms = Pop(@, websocket)]
    IN  IF known /\ room_id \in DOMAIN S.active_connections
        THEN LET left == S.active_connections[room_id] \ {websocket}
             IN  IF left = {}
                 THEN [popped EXCEPT
                          !.active_connections = Pop(@, room_id),
                          !.generation[room_id] = @ + 1]
                 ELSE [popped EXCEPT !.active_connections[room_id] = left]
        ELSE popped

\* ConnectionManager.disconnect: the state afterwards
Disconnect(S, websocket) ==
    LET known == websocket \in DOMAIN S.connection_rooms
        room_id == IF known THEN S.connection_rooms[websocket] ELSE ""
        popped == [S EXCEPT !.connection_rooms = Pop(@, websocket),
                            !.connection_users = Pop(@, websocket)]
    IN  IF known /\ room_id \in DOMAIN S.active_connections
        THEN LET left == S.active_connections[room_id] \ {websocket}
             IN  IF left = {}
                 THEN [popped EXCEPT
                          !.active_connections = Pop(@, room_id),
                          !.generation[room_id] = @ + 1]
                 ELSE [popped EXCEPT !.active_connections[room_id] = left]
        ELSE popped

\* disconnect that answers for a connection it does not know
DisconnectResultAlways(S, websocket) ==
    <<Get(S.connection_rooms, websocket, ""),
      Get(S.connection_users, websocket, "")>>

\* ConnectionManager.disconnect: the value returned
DisconnectResult(S, websocket) ==
    IF /\ websocket \in DOMAIN S.connection_rooms
       /\ websocket \in DOMAIN S.connection_users
    THEN <<S.connection_rooms[websocket], S.connection_users[websocket]>>
    ELSE None

\* broadcast_to_room that forgets the connections it could not send to
DisconnectNone(S, disconnected) == S

\* the loop over disconnected at the end of broadcast_to_room
RECURSIVE DisconnectAll(_, _)
DisconnectAll(S, disconnected) ==
    IF disconnected = <<>> THEN S
    ELSE DisconnectAll(Disconnect(S, Head(disconnected)), Tail(disconnected))

RECURSIVE BroadcastNext(_, _)
RECURSIVE HandleDisconnect(_, _)

\* an exception reaches websocket_endpoint: inside the try it is handled by
\* handle_disconnect, anywhere else it ends the task
Raise(S, websocket) ==
    IF S.task[websocket].in_try
    THEN HandleDisconnect(S, websocket)
    ELSE Die(S, websocket)

\* await redis_pubsub.store_document: nothing to await without a client
StoreDocument(S, websocket) ==
    IF ~S.redis_client THEN Suspend(S, websocket, "await_receive")
    ELSE Suspend(S, websocket, "await_store")

\* await redis_pubsub.publish, and where the task goes on afterwards;
\* without a client it raises RuntimeError before anything is awaited
Publish(S, websocket, then) ==
    IF ~S.redis_client THEN Raise(S, websocket)
    ELSE Suspend([S EXCEPT !.task[websocket].then = then],
                 websocket, "await_publish")

\* the statement after a finished broadcast or publish
Continue(S, websocket) ==
    LET then == S.task[websocket].then
    IN  IF then = "publish_joined" THEN Publish(S, websocket, "receive")
        ELSE IF then = "publish_operation" THEN Publish(S, websocket, "store")
        ELSE IF then = "publish_left" THEN Publish(S, websocket, "return")
        ELSE IF then = "store" THEN StoreDocument(S, websocket)
        ELSE IF then = "receive" THEN Suspend(S, websocket, "await_receive")
        ELSE Suspend(S, websocket, "done")

\* broadcast_to_room after its loop: the failed connections are dropped
BroadcastEnd(S, websocket) ==
    Continue([DisconnectAll(S, S.task[websocket].disconnected) EXCEPT
                 !.task[websocket].message = EmptyDict,
                 !.task[websocket].exclude = NoSocket,
                 !.task[websocket].iterator = NoIterator,
                 !.task[websocket].disconnected = <<>>],
             websocket)

\* the body of the loop of broadcast_to_room for one connection
BroadcastVisit(S, websocket, connection) ==
    LET t == S.task[websocket]
        visited == [S EXCEPT !.task[websocket].iterator.visited =
                                @ \cup {connection}]
    IN  IF connection = t.exclude THEN BroadcastNext(visited, websocket)
        ELSE UNION {
            IF outcome = "raised"
            THEN BroadcastNext(
                     [visited EXCEPT !.task[websocket].disconnected =
                                        Append(@, connection)],
                     websocket)
            ELSE IF outcome = "dropped"
            THEN Suspend(visited, websocket, "await_send")
            ELSE Suspend(Deliver(visited, connection, t.message),
                         websocket, "await_send")
            : outcome \in SendOutcomes(S, connection)}

\* the next round of `for connection in self.active_connections[room_id]`.
\* The iterator raises RuntimeError when the set's size is not what it was
\* when the loop began (a set deleted from the dict was emptied first).
\* While the size is the same, the connections that were there when the
\* loop began are all visited; one added since is visited or passed over,
\* depending on where it is stored.
BroadcastNext(S, websocket) ==
    LET t == S.task[websocket]
        same == /\ t.room_id \in DOMAIN S.active_connections
                /\ S.generation[t.room_id] = t.iterator.generation
        now == IF same THEN S.active_connections[t.room_id] ELSE {}
        old == (now \cap t.iterator.initial) \ t.iterator.visited
        new == (now \ t.iterator.initial) \ t.iterator.visited
    IN  IF Cardinality(now) # t.iterator.used
        THEN Raise([S EXCEPT !.task[websocket].message = EmptyDict,
                             !.task[websocket].exclude = NoSocket,
                             !.task[websocket].iterator = NoIterator,
                             !.task[websocket].disconnected = <<>>],
                   websocket)
        ELSE (IF old = {} THEN BroadcastEnd(S, websocket) ELSE {})
             \cup UNION {BroadcastVisit(S, websocket, connection) :
                            connection \in old \cup new}

\* ConnectionManager.broadcast_to_room, and where the task goes on afterwards
BroadcastToRoom(S, websocket, message, room_id, exclude, then) ==
    IF room_id \notin DOMAIN S.active_connections
    THEN Continue([S EXCEPT !.task[websocket].then = then], websocket)
    ELSE BroadcastNext(
             [S EXCEPT
                 !.task[websocket].then = then,
                 !.task[websocket].message = message,
                 !.task[websocket].exclude = exclude,
                 !.task[websocket].disconnected = <<>>,
                 !.task[websocket].iterator =
                     [used |-> Cardinality(S.active_connections[room_id]),
                      generation |-> S.generation[room_id],
                      initial |-> S.active_connections[room_id],
                      visited |-> {}]],
             websocket)

\* handle_disconnect, entered from an except clause of websocket_endpoint
HandleDisconnect(S, websocket) ==
    LET room_id == S.task[websocket].room_id
        user_id == UserId(websocket)
        S1 == [Disconnect(S, websocket) EXCEPT
                  !.task[websocket].in_try = FALSE]
    IN  IF room_id \in DOMAIN S1.rooms /\ user_id \in DOMAIN S1.rooms[room_id].users
        THEN BroadcastToRoom(
                 [S1 EXCEPT !.rooms[room_id] = RemoveUser(@, user_id)],
                 websocket, [type |-> "user_left", userId |-> user_id],
                 room_id, NoSocket, "publish_left")
        ELSE Suspend(S1, websocket, "done")

\* websocket_endpoint that registers the connection before it looks for the
\* room
EndpointRegistersFirst(S, websocket, room_id) ==
    IF room_id \notin DOMAIN S.rooms
    THEN Suspend(Register(S, websocket, room_id, UserId(websocket)),
                 websocket, "await_close")
    ELSE Suspend([S EXCEPT
                     !.rooms[room_id] = AddUser(@, NewUser(UserId(websocket), S.clock)),
                     !.task[websocket].room_id = room_id],
                 websocket, "await_accept")

\* websocket_endpoint up to its first await
Endpoint(S, websocket, room_id) ==
    IF room_id \notin DOMAIN S.rooms
    THEN Suspend(S, websocket, "await_close")
    ELSE Suspend([S EXCEPT
                     !.rooms[room_id] = AddUser(@, NewUser(UserId(websocket), S.clock)),
                     !.task[websocket].room_id = room_id],
                 websocket, "await_accept")

\* websocket_endpoint from the accept to the send of init
Accepted(S, websocket) ==
    LET room_id == S.task[websocket].room_id
        user_id == UserId(websocket)
        S1 == [Register(S, websocket, room_id, user_id) EXCEPT
                  !.task[websocket].in_try = TRUE]
        init == [type |-> "init", userId |-> user_id,
                 document |-> GetState(S1.rooms[room_id].crdt),
                 users |-> DOMAIN S1.rooms[room_id].users]
    IN  UNION {
            IF outcome = "raised" THEN Raise(S1, websocket)
            ELSE IF outcome = "dropped" THEN Suspend(S1, websocket, "await_init")
            ELSE Suspend(Deliver(S1, websocket, init), websocket, "await_init")
            : outcome \in SendOutcomes(S1, websocket)}

\* websocket_endpoint after the send of init
Joined(S, websocket) ==
    BroadcastToRoom(S, websocket,
                    [type |-> "user_joined", user |-> UserId(websocket)],
                    S.task[websocket].room_id, websocket, "publish_joined")

\* the operation branch of handle_websocket_message
\* Operation.from_dict calls .get on its argument, which raises
\* AttributeError on a value that is not a dict
HandleOperation(S, websocket, data) ==
    LET room_id == S.task[websocket].room_id
        user_id == UserId(websocket)
        operation == [FromDict(Get(data, "operation", EmptyDict), S.clock)
                         EXCEPT !.client_id = user_id]
        r == ApplyOperation(S.rooms[room_id].crdt, operation)
        S1 == [S EXCEPT !.clock = @ + 1, !.rooms[room_id].crdt = r.crdt]
    IN  IF ~IsObject(Get(data, "operation", EmptyDict))
        THEN Raise(S, websocket)
        ELSE IF r.ret
        THEN BroadcastToRoom(S1, websocket,
                 [type |-> "operation", operation |-> ToDict(operation),
                  userId |-> user_id],
                 room_id, websocket, "publish_operation")
        ELSE Suspend(S1, websocket, "await_receive")

\* the cursor branch of handle_websocket_message
HandleCursor(S, websocket, data) ==
    LET room_id == S.task[websocket].room_id
        user_id == UserId(websocket)
        position == Get(data, "position", 0)
        selection_start ==
            IF "selectionStart" \in DOMAIN data
            THEN Some(data.selectionStart) ELSE None
        selection_end ==
            IF "selectionEnd" \in DOMAIN data
            THEN Some(data.selectionEnd) ELSE None
    IN  BroadcastToRoom(
            [S EXCEPT !.rooms[room_id] =
                UpdateUserCursor(@, user_id, position,
                                 selection_start, selection_end, S.clock)],
            websocket,
            [type |-> "cursor", userId |-> user_id, position |-> position,
             selectionStart |-> selection_start,
             selectionEnd |-> selection_end],
            room_id, websocket, "receive")

\* the ping branch of handle_websocket_message
HandlePing(S, websocket) ==
    UNION {
        IF outcome = "raised" THEN Raise(S, websocket)
        ELSE IF outcome = "dropped" THEN Suspend(S, websocket, "await_pong")
        ELSE Suspend(Deliver(S, websocket, [type |-> "pong"]),
                     websocket, "await_pong")
        : outcome \in SendOutcomes(S, websocket)}

\* handle_websocket_message that relays an operation message of a room
\* that is gone
HandleWebsocketMessageRelays(S, websocket, data) ==
    IF S.task[websocket].room_id \in DOMAIN S.rooms
          \/ ~IsObject(data) \/ Get(data, "type", "") # "operation"
    THEN Suspend(S, websocket, "await_receive")
    ELSE BroadcastToRoom(S, websocket, data, S.task[websocket].room_id,
                         websocket, "publish_operation")

\* handle_websocket_message up to its first await; when it returns without
\* one, the loop of websocket_endpoint awaits the next message.
\* data.get('type') raises AttributeError on a value that is not a dict
HandleWebsocketMessage(S, websocket, data) ==
    LET message_type == Get(data, "type", "")
    IN  IF S.task[websocket].room_id \notin DOMAIN S.rooms
        THEN Suspend(S, websocket, "await_receive")
        ELSE IF ~IsObject(data) THEN Raise(S, websocket)
        ELSE IF message_type = "operation" THEN HandleOperation(S, websocket, data)
        ELSE IF message_type = "cursor" THEN HandleCursor(S, websocket, data)
        ELSE IF message_type = "ping" THEN HandlePing(S, websocket)
        ELSE Suspend(S, websocket, "await_receive")

---------------------------------------------------------------------------
(* The server process and its clients *)

State ==
    [rooms |-> rooms, active_connections |-> active_connections,
     connection_users |-> connection_users,
     connection_rooms |-> connection_rooms, generation |-> generation,
     redis_client |-> redis_client, task |-> task, clock |-> clock,
     received |-> received, client |-> client]

\* the process moves to state S
Becomes(S) ==
    /\ rooms' = S.rooms
    /\ active_connections' = S.active_connections
    /\ connection_users' = S.connection_users
    /\ connection_rooms' = S.connection_rooms
    /\ generation' = S.generation
    /\ redis_client' = S.redis_client
    /\ redis_pubsub' = redis_pubsub
    /\ task' = S.task
    /\ clock' = S.clock
    /\ received' = S.received

\* the module-level singletons of room_manager.py, websocket_manager.py and
\* redis_service.py, the rooms of RoomIds created, no client yet
ServerStarted ==
    /\ clock = 1
    /\ rooms = [room_id \in RoomIds |-> NewRoom(room_id, clock)]
    /\ active_connections = EmptyDict
    /\ connection_users = EmptyDict
    /\ connection_rooms = EmptyDict
    /\ generation = [room_id \in RoomIds |-> 0]
    /\ task = [websocket \in Sockets |-> NewTask]
    /\ client = [websocket \in Sockets |-> [state |-> "new", sent |-> 0]]
    /\ inbox = [websocket \in Sockets |-> <<>>]
    /\ received = [websocket \in Sockets |-> <<>>]

\* startup_event: redis_pubsub.connect() sets redis_client or raises
InitRoom ==
    /\ crdt = NewCRDT("test-doc")
    /\ history = <<>>
    /\ observed = NoCall
    /\ ServerStarted
    /\ redis_client \in BOOLEAN
    /\ redis_pubsub = Started(redis_client)

\* the number of messages the clients have sent, all together
RECURSIVE SentBy(_)
SentBy(websockets) ==
    IF websockets = {} THEN 0
    ELSE LET websocket == CHOOSE w \in websockets : TRUE
         IN  client[websocket].sent + SentBy(websockets \ {websocket})

\* a client opens /ws/{room_id}: websocket_endpoint starts
ClientConnect(websocket) ==
    /\ client[websocket].state = "new"
    /\ \E room_id \in DOMAIN rooms \cup {UnknownRoom} :
          \E S \in Endpoint(State, websocket, room_id) : Becomes(S)
    /\ client' = [client EXCEPT ![websocket].state = "connecting"]
    /\ UNCHANGED <<inbox, docVars>>

\* a client sends a message; sent_after records how many messages it had
\* been sent when it did
ClientSend(websocket) ==
    /\ client[websocket].state = "open"
    /\ SentBy(DOMAIN client) < MaxInbound
    /\ \E data \in InboundMessages :
          inbox' = [inbox EXCEPT ![websocket] =
                       Append(@, [data |-> data,
                                  sent_after |-> Len(received[websocket])])]
    /\ client' = [client EXCEPT ![websocket].sent = @ + 1]
    /\ UNCHANGED <<serverVars, docVars>>

\* a client sends a message that is not what the protocol describes
ClientSendMalformed(websocket) ==
    /\ client[websocket].state = "open"
    /\ SentBy(DOMAIN client) < MaxInbound
    /\ \E data \in MalformedMessages :
          inbox' = [inbox EXCEPT ![websocket] =
                       Append(@, [data |-> data,
                                  sent_after |-> Len(received[websocket])])]
    /\ client' = [client EXCEPT ![websocket].sent = @ + 1]
    /\ UNCHANGED <<serverVars, docVars>>

\* a client sends an operation whose position is not a number
ClientSendUntyped(websocket) ==
    /\ client[websocket].state = "open"
    /\ SentBy(DOMAIN client) < MaxInbound
    /\ \E data \in UntypedMessages :
          inbox' = [inbox EXCEPT ![websocket] =
                       Append(@, [data |-> data,
                                  sent_after |-> Len(received[websocket])])]
    /\ client' = [client EXCEPT ![websocket].sent = @ + 1]
    /\ UNCHANGED <<serverVars, docVars>>

\* DELETE /api/rooms/{room_id} for a room that exists
DeleteRoomRequest(room_id) ==
    /\ DeleteRoomResult(rooms, room_id)
    /\ rooms' = DeleteRoom(rooms, room_id)
    /\ UNCHANGED <<active_connections, connection_users, connection_rooms,
                   generation, redis_client, redis_pubsub, task, clock,
                   received,
                   clientVars, docVars>>

\* a client goes away
ClientClose(websocket) ==
    /\ client[websocket].state \in {"connecting", "open"}
    /\ Cardinality({w \in DOMAIN client : client[w].state = "closed"}) < MaxCloses
    /\ client' = [client EXCEPT ![websocket].state = "closed"]
    /\ UNCHANGED <<serverVars, inbox, docVars>>

\* await websocket.close(code=4004) is over: websocket_endpoint returns
Rejected(websocket) ==
    /\ task[websocket].pc = "await_close"
    /\ task' = [task EXCEPT ![websocket].pc = "done"]
    /\ client' = [client EXCEPT ![websocket].state = "rejected"]
    /\ UNCHANGED <<rooms, active_connections, connection_users,
                   connection_rooms, generation, redis_client, redis_pubsub,
                   clock,
                   received, inbox, docVars>>

\* await websocket.accept() is over: the handshake is done and the task
\* registers the connection and sends init
AcceptDone(websocket) ==
    /\ task[websocket].pc = "await_accept"
    /\ client[websocket].state = "connecting"
    /\ client' = [client EXCEPT ![websocket].state = "open"]
    /\ \E S \in Accepted([State EXCEPT !.client = client'], websocket) :
          Becomes(S)
    /\ UNCHANGED <<inbox, docVars>>

\* await websocket.accept() is over and the client has gone meanwhile: the
\* accept raises, outside the try, or the handshake was done in time and
\* the task goes on
AcceptLate(websocket) ==
    /\ task[websocket].pc = "await_accept"
    /\ client[websocket].state = "closed"
    /\ \E S \in Die(State, websocket) \cup Accepted(State, websocket) :
          Becomes(S)
    /\ UNCHANGED <<clientVars, docVars>>

\* await websocket.send_json(init) is over
InitSent(websocket) ==
    /\ task[websocket].pc = "await_init"
    /\ \E S \in Joined(State, websocket) : Becomes(S)
    /\ UNCHANGED <<clientVars, docVars>>

\* await connection.send_json(message) in broadcast_to_room is over
BroadcastSent(websocket) ==
    /\ task[websocket].pc = "await_send"
    /\ \E S \in BroadcastNext(State, websocket) : Becomes(S)
    /\ UNCHANGED <<clientVars, docVars>>

\* await redis_client.publish(...) is over
Published(websocket) ==
    /\ task[websocket].pc = "await_publish"
    /\ \E S \in Continue(State, websocket) : Becomes(S)
    /\ UNCHANGED <<clientVars, docVars>>

\* await redis_client.set(...) in store_document is over
Stored(websocket) ==
    /\ task[websocket].pc = "await_store"
    /\ \E S \in Suspend(State, websocket, "await_receive") : Becomes(S)
    /\ UNCHANGED <<clientVars, docVars>>

\* await websocket.send_json({'type': 'pong'}) is over
PongSent(websocket) ==
    /\ task[websocket].pc = "await_pong"
    /\ \E S \in Suspend(State, websocket, "await_receive") : Becomes(S)
    /\ UNCHANGED <<clientVars, docVars>>

\* await websocket.receive_json() returns the client's next message
Receive(websocket) ==
    /\ task[websocket].pc = "await_receive"
    /\ inbox[websocket] # <<>>
    /\ inbox' = [inbox EXCEPT ![websocket] = Tail(@)]
    /\ \E S \in HandleWebsocketMessage(State, websocket,
                                       Head(inbox[websocket]).data) :
          Becomes(S)
    /\ UNCHANGED <<client, docVars>>

\* await websocket.receive_json() raises WebSocketDisconnect
ReceiveDisconnect(websocket) ==
    /\ task[websocket].pc = "await_receive"
    /\ inbox[websocket] = <<>>
    /\ client[websocket].state = "closed"
    /\ \E S \in Raise(State, websocket) : Becomes(S)
    /\ UNCHANGED <<clientVars, docVars>>

NextRoom ==
    \E websocket \in Sockets :
        \/ ClientConnect(websocket)
        \/ ClientSend(websocket)
        \/ ClientClose(websocket)
        \/ Rejected(websocket)
        \/ AcceptDone(websocket)
        \/ AcceptLate(websocket)
        \/ InitSent(websocket)
        \/ BroadcastSent(websocket)
        \/ Published(websocket)
        \/ Stored(websocket)
        \/ PongSent(websocket)
        \/ Receive(websocket)
        \/ ReceiveDisconnect(websocket)

SpecRoom == InitRoom /\ [][NextRoom]_vars

\* the messages a client has been sent once it and then the others have
\* joined room_id, one after the other: its init, and a user_joined for
\* each one who came later
JoinMessages(room_id, joined, later) ==
    <<[type |-> "init", userId |-> UserId(Last(joined)),
       document |-> GetState(NewCRDT(room_id)),
       users |-> {UserId(joined[i]) : i \in 1..Len(joined)}]>>
    \o [i \in 1..Len(later) |->
          [type |-> "user_joined", user |-> UserId(later[i])]]

\* the process after the clients of w1, w2 and w3 have joined room r1, in
\* this order and each before the next arrived: every task waits in its
\* message loop
InitJoined ==
    LET order == <<"w1", "w2", Listener>>
        connections == Connections
    IN  /\ crdt = NewCRDT("test-doc")
        /\ history = <<>>
        /\ observed = NoCall
        /\ redis_client = TRUE
        /\ redis_pubsub = Started(redis_client)
        /\ clock = 1
        /\ rooms = [room_id \in {"r1"} |->
                      [NewRoom(room_id, clock) EXCEPT !.users =
                          [user_id \in {UserId(w) : w \in connections} |->
                              NewUser(user_id, clock)]]]
        /\ active_connections = [room_id \in {"r1"} |-> connections]
        /\ connection_users = [w \in connections |-> UserId(w)]
        /\ connection_rooms = [w \in connections |-> "r1"]
        /\ generation = [room_id \in RoomIds |-> 0]
        /\ task = [w \in connections |->
                     [NewTask EXCEPT !.pc = "await_receive", !.room_id = "r1",
                                     !.in_try = TRUE, !.then = "receive"]]
        /\ client = [w \in connections |-> [state |-> "open", sent |-> 0]]
        /\ inbox = [w \in connections |-> <<>>]
        /\ received =
              [w \in connections |->
                  LET n == CHOOSE i \in 1..Len(order) : order[i] = w
                  IN  JoinMessages("r1", SubSeq(order, 1, n),
                                   SubSeq(order, n + 1, Len(order)))]

\* the message loops of the tasks of a full room; the third client only
\* listens
NextJoined ==
    \/ \E websocket \in Sockets : ClientSend(websocket)
    \/ \E websocket \in Connections :
        \/ ClientClose(websocket)
        \/ BroadcastSent(websocket)
        \/ Published(websocket)
        \/ Stored(websocket)
        \/ PongSent(websocket)
        \/ Receive(websocket)
        \/ ReceiveDisconnect(websocket)

SpecJoined == InitJoined /\ [][NextJoined]_vars

\* the message loops of the tasks of a full room, among the clients'
\* messages operations that cannot be applied
NextSubmit ==
    \/ \E websocket \in Sockets :
        \/ ClientSend(websocket)
        \/ ClientSendUntyped(websocket)
    \/ \E websocket \in Connections :
        \/ ClientClose(websocket)
        \/ BroadcastSent(websocket)
        \/ Published(websocket)
        \/ Stored(websocket)
        \/ PongSent(websocket)
        \/ Receive(websocket)
        \/ ReceiveDisconnect(websocket)

SpecSubmit == InitJoined /\ [][NextSubmit]_vars

---------------------------------------------------------------------------
(* The hub driven through its methods, each call running to its end with
   no other task in between *)

\* number of broadcasts a connection is sent
MaxBroadcasts == 2

\* the rooms the connections are registered under
HubRooms == {"r1", "r2"}

\* the messages broadcast
HubMessages == {[type |-> "user_left", userId |-> "user0"]}

\* a sequence of the elements of a set, as a loop over the set visits them
RECURSIVE SetToSeq(_)
SetToSeq(set) ==
    IF set = {} THEN <<>>
    ELSE LET x == CHOOSE y \in set : TRUE
         IN  <<x>> \o SetToSeq(set \ {x})

\* broadcast_to_room that sends to the excluded connection as well
TargetsAll(S, room_id, exclude) == S.active_connections[room_id]

\* the connections the loop of broadcast_to_room sends to
Targets(S, room_id, exclude) == S.active_connections[room_id] \ {exclude}

\* the connections a send to which may raise
MayFail(S, room_id, exclude) ==
    IF room_id \notin DOMAIN S.active_connections THEN {}
    ELSE {w \in Targets(S, room_id, exclude) : "raised" \in SendOutcomes(S, w)}

\* ConnectionManager.broadcast_to_room run from its call to its return;
\* failing are the connections the send to which raises
Broadcast(S, message, room_id, exclude, failing) ==
    IF room_id \notin DOMAIN S.active_connections THEN S
    ELSE LET sent ==
                 [S EXCEPT !.received =
                     [w \in DOMAIN @ |->
                         IF /\ w \in Targets(S, room_id, exclude)
                            /\ "delivered" \in SendOutcomes(S, w)
                         THEN Append(@[w], message) ELSE @[w]]]
         IN  DisconnectAll(sent, SetToSeq(failing))

\* the hub after a call: no loop over a connection set is under way, so
\* that the count of the sets deleted distinguishes nothing
Returned(S) == [S EXCEPT !.generation = generation]

\* no client has connected yet
InitHub ==
    /\ crdt = NewCRDT("test-doc")
    /\ history = <<>>
    /\ observed = NoCall
    /\ redis_client = FALSE
    /\ redis_pubsub = Started(redis_client)
    /\ clock = 1
    /\ rooms = [room_id \in RoomIds |-> NewRoom(room_id, clock)]
    /\ active_connections = EmptyDict
    /\ connection_users = EmptyDict
    /\ connection_rooms = EmptyDict
    /\ generation = [room_id \in HubRooms |-> 0]
    /\ task = [websocket \in Connections |-> NewTask]
    /\ client = [websocket \in Connections |-> [state |-> "new", sent |-> 0]]
    /\ inbox = [websocket \in Connections |-> <<>>]
    /\ received = [websocket \in Connections |-> <<>>]

\* await connection_manager.connect(websocket, room_id, user_id); a
\* connection stays with the room and the user it was first given.
\* websocket.accept() returns on a new connection; on one accepted before,
\* or one the client has left, it raises or returns, depending on the
\* transport
connect(websocket) ==
    /\ \E room_id \in HubRooms :
       \E accept \in IF client[websocket].state = "new"
                     THEN {"returned"} ELSE {"raised", "returned"} :
          /\ websocket \in DOMAIN connection_rooms
                => room_id = connection_rooms[websocket]
          /\ observed' = [call |-> "connect", websocket |-> websocket,
                          room_id |-> room_id, accept |-> accept]
          /\ IF accept = "raised"
             THEN UNCHANGED <<serverVars, client>>
             ELSE /\ Becomes(Register(State, websocket, room_id,
                                      UserId(websocket)))
                  /\ client' = [client EXCEPT ![websocket].state =
                                   IF @ = "new" THEN "open" ELSE @]
    /\ UNCHANGED <<crdt, history, inbox>>

\* connection_manager.disconnect(websocket)
disconnect(websocket) ==
    /\ Becomes(Returned(Disconnect(State, websocket)))
    /\ observed' = [call |-> "disconnect", websocket |-> websocket,
                    ret |-> DisconnectResult(State, websocket)]
    /\ UNCHANGED <<crdt, history, clientVars>>

\* await connection_manager.broadcast_to_room(message, room_id, exclude)
broadcast_to_room ==
    /\ \A websocket \in Connections :
          Len(received[websocket]) < MaxBroadcasts
    /\ \E message \in HubMessages, room_id \in HubRooms,
          exclude \in Connections \cup {NoSocket} :
       \E failing \in SUBSET MayFail(State, room_id, exclude) :
          /\ Becomes(Returned(Broadcast(State, message, room_id, exclude,
                                        failing)))
          /\ observed' = [call |-> "broadcast_to_room", message |-> message,
                          room_id |-> room_id, exclude |-> exclude,
                          failing |-> failing]
    /\ UNCHANGED <<crdt, history, clientVars>>

\* the client of a connection goes away
close(websocket) ==
    /\ client[websocket].state = "open"
    /\ Cardinality({w \in DOMAIN client : client[w].state = "closed"})
          < MaxCloses
    /\ client' = [client EXCEPT ![websocket].state = "closed"]
    /\ observed' = [call |-> "close", websocket |-> websocket]
    /\ UNCHANGED <<crdt, history, serverVars, inbox>>

NextHub ==
    \/ \E websocket \in Connections :
          \/ connect(websocket)
          \/ disconnect(websocket)
          \/ close(websocket)
    \/ broadcast_to_room

SpecHub == InitHub /\ [][NextHub]_vars

---------------------------------------------------------------------------
(* Two clients in a room that may be deleted, and a client arriving while
   two others are in a room *)

\* the process after the clients of w1 and w2 have joined room r1, in this
\* order and each before the next arrived; the clients of arriving have not
\* connected yet
JoinedPair(room_ids, arriving) ==
    LET order == <<"w1", "w2">>
    IN  /\ crdt = NewCRDT("test-doc")
        /\ history = <<>>
        /\ observed = NoCall
        /\ redis_client = TRUE
        /\ redis_pubsub = Started(redis_client)
        /\ clock = 1
        /\ rooms = [room_id \in room_ids |->
                      IF room_id = "r1"
                      THEN [NewRoom(room_id, clock) EXCEPT !.users =
                               [user_id \in {UserId(w) : w \in Sockets} |->
                                   NewUser(user_id, clock)]]
                      ELSE NewRoom(room_id, clock)]
        /\ active_connections = [room_id \in {"r1"} |-> Sockets]
        /\ connection_users = [w \in Sockets |-> UserId(w)]
        /\ connection_rooms = [w \in Sockets |-> "r1"]
        /\ generation = [room_id \in room_ids |-> 0]
        /\ task = [w \in Sockets \cup arriving |->
                     IF w \in Sockets
                     THEN [NewTask EXCEPT !.pc = "await_receive",
                                          !.room_id = "r1", !.in_try = TRUE,
                                          !.then = "receive"]
                     ELSE NewTask]
        /\ client = [w \in Sockets \cup arriving |->
                       [state |-> IF w \in Sockets THEN "open" ELSE "new",
                        sent |-> 0]]
        /\ inbox = [w \in Sockets \cup arriving |-> <<>>]
        /\ received =
              [w \in Sockets \cup arriving |->
                  IF w \in Sockets
                  THEN LET n == CHOOSE i \in 1..Len(order) : order[i] = w
                       IN  JoinMessages("r1", SubSeq(order, 1, n),
                                        SubSeq(order, n + 1, Len(order)))
                  ELSE <<>>]

InitPair == JoinedPair(RoomIds, {})

\* the message loops of two tasks, the clients sending what they like, and
\* requests that delete the room
NextPair ==
    \/ \E websocket \in Sockets :
        \/ ClientSend(websocket)
        \/ ClientSendMalformed(websocket)
        \/ ClientClose(websocket)
        \/ BroadcastSent(websocket)
        \/ Published(websocket)
        \/ Stored(websocket)
        \/ PongSent(websocket)
        \/ Receive(websocket)
        \/ ReceiveDisconnect(websocket)
    \/ \E room_id \in RoomIds : DeleteRoomRequest(room_id)

SpecPair == InitPair /\ [][NextPair]_vars

InitArrival == JoinedPair(HubRooms, {Listener})

\* number of messages the clients send while the third arrives
MaxArrivalInbound == 1

\* a client sends a message while the third arrives
ArrivalSend(websocket) ==
    /\ SentBy(DOMAIN client) < MaxArrivalInbound
    /\ ClientSend(websocket)

\* the tasks of the two clients in r1 and of a third that connects to r1,
\* to r2 or to a room that does not exist
NextArrival ==
    \E websocket \in Connections :
        \/ ClientConnect(websocket)
        \/ ArrivalSend(websocket)
        \/ ClientClose(websocket)
        \/ Rejected(websocket)
        \/ AcceptDone(websocket)
        \/ AcceptLate(websocket)
        \/ InitSent(websocket)
        \/ BroadcastSent(websocket)
        \/ Published(websocket)
        \/ Stored(websocket)
        \/ PongSent(websocket)
        \/ Receive(websocket)
        \/ ReceiveDisconnect(websocket)

SpecArrival == InitArrival /\ [][NextArrival]_vars

\* the tasks of the two clients in r1 and of a third that connects, the
\* clients sending what they like and none of them going away
NextJoin ==
    \E websocket \in Connections :
        \/ ClientConnect(websocket)
        \/ ClientSend(websocket)
        \/ Rejected(websocket)
        \/ AcceptDone(websocket)
        \/ InitSent(websocket)
        \/ BroadcastSent(websocket)
        \/ Published(websocket)
        \/ Stored(websocket)
        \/ PongSent(websocket)
        \/ Receive(websocket)

SpecJoin == InitArrival /\ [][NextJoin]_vars

---------------------------------------------------------------------------
(* The broker bridge driven through its methods, messages arriving from the
   broker in between *)

\* redis_pubsub after connect(): no subscription, no loop
InitBridge ==
    /\ crdt = NewCRDT("test-doc")
    /\ history = <<>>
    /\ observed = NoCall
    /\ redis_client = TRUE
    /\ redis_pubsub = NewRedisPubSub
    /\ clock = 1
    /\ rooms = EmptyDict
    /\ active_connections = EmptyDict
    /\ connection_users = EmptyDict
    /\ connection_rooms = EmptyDict
    /\ generation = [room_id \in HubRooms |-> 0]
    /\ task = [websocket \in Connections |-> NewTask]
    /\ client = [websocket \in Connections |-> [state |-> "new", sent |-> 0]]
    /\ inbox = [websocket \in Connections |-> <<>>]
    /\ received = [websocket \in Connections |-> <<>>]

\* what a call on the bridge leaves alone
bridgeFrame ==
    <<crdt, history, rooms, active_connections, connection_users,
      connection_rooms, generation, redis_client, task, clock, received,
      client, inbox>>

\* what became of the messages the loop has taken so far
Earlier ==
    IF observed.call = "none" THEN {}
    ELSE observed.earlier
            \cup (IF observed.call = "message" THEN {observed.outcome} ELSE {})

\* await redis_pubsub.subscribe(channel, handler)
subscribe(channel, handler) ==
    /\ redis_pubsub.running \/ ~redis_pubsub.listening
    /\ redis_pubsub' = Subscribe(redis_pubsub, channel, handler)
    /\ observed' = [call |-> "subscribe", channel |-> channel,
                    handler |-> handler, earlier |-> Earlier]
    /\ UNCHANGED bridgeFrame

\* await redis_pubsub.unsubscribe(channel)
unsubscribe(channel) ==
    /\ redis_pubsub' = Unsubscribe(redis_pubsub, channel)
    /\ observed' = [call |-> "unsubscribe", channel |-> channel,
                    earlier |-> Earlier]
    /\ UNCHANGED bridgeFrame

\* asyncio.create_task(redis_pubsub.listen())
listen ==
    /\ ~redis_pubsub.listening
    /\ redis_pubsub' = Listen(redis_pubsub)
    /\ observed' = [call |-> "listen", earlier |-> Earlier]
    /\ UNCHANGED bridgeFrame

\* the broker sends a message of a subscribed channel, or one had been on
\* its way when the connection was closed: the loop of listen takes it
listen_round(channel) ==
    /\ redis_pubsub.listening
    /\ channel \in redis_pubsub.subscribed \/ ~redis_pubsub.running
    /\ \E type \in MessageTypes, data \in Payloads :
          LET message == [type |-> type, channel |-> channel, data |-> data]
              r == ListenRound(redis_pubsub, message)
          IN  /\ redis_pubsub' = r.pubsub
              /\ observed' = [call |-> "message", message |-> message,
                              outcome |-> r.outcome, earlier |-> Earlier]
    /\ UNCHANGED bridgeFrame

\* await redis_pubsub.disconnect()
redis_disconnect ==
    /\ redis_pubsub.running
    /\ redis_pubsub' = DisconnectRedis(redis_pubsub)
    /\ observed' = [call |-> "disconnect", earlier |-> Earlier]
    /\ UNCHANGED bridgeFrame

NextBridge ==
    \/ \E channel \in Channels :
          \/ \E handler \in Handlers : subscribe(channel, handler)
          \/ unsubscribe(channel)
          \/ listen_round(channel)
    \/ listen
    \/ redis_disconnect

SpecBridge == InitBridge /\ [][NextBridge]_vars

---------------------------------------------------------------------------
(* One process of two: its clients in room r1, and a peer process that
   serves the same room and publishes what it applies *)

\* the user of a client of the peer process
PeerUser == "user9"

\* the operations the peer process applies and publishes
PeerOperations ==
    {[op_type |-> op_type, position |-> 0, position_is_int |-> TRUE,
      content |-> <<"a">>, client_id |-> PeerUser, timestamp |-> 0,
      version |-> 0] : op_type \in OpTypes}

\* what the peer publishes for an operation it has applied
PeerMessage(operation) ==
    [type |-> "operation", operation |-> ToDict(operation),
     userId |-> PeerUser]

InitCluster == JoinedPair(RoomIds, {})

\* the peer process has applied an operation and publishes it on the
\* channel of the room; the broker sends it to the subscribers of the
\* channel. main.py subscribes to no channel and defines no handler
PeerPublish ==
    /\ \E operation \in PeerOperations :
          LET r == Relay(redis_pubsub, "room:r1",
                         JsonDumps(PeerMessage(operation)))
          IN  /\ redis_pubsub' = r.pubsub
              /\ observed' = [call |-> "publish", channel |-> "room:r1",
                              message |-> PeerMessage(operation),
                              outcome |-> r.outcome]
    /\ UNCHANGED <<crdt, history, rooms, active_connections, connection_users,
                   connection_rooms, generation, redis_client, task, clock,
                   received, clientVars>>

\* a step of the task of a connection
Run(websocket) ==
    \/ BroadcastSent(websocket)
    \/ Published(websocket)
    \/ Stored(websocket)
    \/ PongSent(websocket)
    \/ Receive(websocket)
    \/ ReceiveDisconnect(websocket)

NextCluster ==
    \/ \E websocket \in Sockets :
          \/ ArrivalSend(websocket)
          \/ ClientClose(websocket)
          \/ BroadcastSent(websocket)
          \/ Published(websocket)
          \/ Stored(websocket)
          \/ PongSent(websocket)
          \/ Receive(websocket)
          \/ ReceiveDisconnect(websocket)
    \/ PeerPublish

SpecCluster == InitCluster /\ [][NextCluster]_vars

\* the event loop runs every task that can go on
FairCluster ==
    SpecCluster /\ \A websocket \in Sockets : WF_vars(Run(websocket))

---------------------------------------------------------------------------
(* The room registry driven through its methods, as the unit tests drive it *)

\* the users the calls name
RegistryUsers == {"user1", "user2"}

\* the default of max_age_hours in cleanup_inactive_rooms
MaxAgeHours == 24

\* the instants at which calls are made: the start, and the start plus
\* spans around the two thresholds of the code
Instants ==
    {1 + span : span \in {0, ActiveSeconds - 1, ActiveSeconds,
                          MaxAgeHours * SecondsPerHour,
                          MaxAgeHours * SecondsPerHour + 1}}

\* the cursors the calls set: position, selection_start, selection_end
Cursors == {<<1, None, None>>, <<2, Some(0), Some(2)>>}

\* room_manager = RoomManager(): no room yet
InitRegistry ==
    /\ crdt = NewCRDT("test-doc")
    /\ history = <<>>
    /\ observed = NoCall
    /\ redis_client = FALSE
    /\ redis_pubsub = Started(redis_client)
    /\ clock = 1
    /\ rooms = EmptyDict
    /\ active_connections = EmptyDict
    /\ connection_users = EmptyDict
    /\ connection_rooms = EmptyDict
    /\ generation = [room_id \in HubRooms |-> 0]
    /\ task = [websocket \in Connections |-> NewTask]
    /\ client = [websocket \in Connections |-> [state |-> "new", sent |-> 0]]
    /\ inbox = [websocket \in Connections |-> <<>>]
    /\ received = [websocket \in Connections |-> <<>>]

\* what a call on the registry leaves alone
registryFrame ==
    <<crdt, history, active_connections, connection_users, connection_rooms,
      generation, redis_client, redis_pubsub, task, received, client, inbox>>

\* room_manager.create_room()
create_room ==
    /\ \E room_id \in RoomIds \ DOMAIN rooms :
          /\ rooms' = CreateRoom(rooms, room_id, clock)
          /\ observed' = [call |-> "create_room", room_id |-> room_id]
    /\ UNCHANGED <<clock, registryFrame>>

\* room.add_user(User(user_id=...))
add_user(room_id, user_id) ==
    /\ room_id \in DOMAIN rooms
    /\ rooms' = [rooms EXCEPT ![room_id] = AddUser(@, NewUser(user_id, clock))]
    /\ observed' = [call |-> "add_user", room_id |-> room_id,
                    user_id |-> user_id]
    /\ UNCHANGED <<clock, registryFrame>>

\* room.remove_user(user_id)
remove_user(room_id, user_id) ==
    /\ room_id \in DOMAIN rooms
    /\ rooms' = [rooms EXCEPT ![room_id] = RemoveUser(@, user_id)]
    /\ observed' = [call |-> "remove_user", room_id |-> room_id,
                    user_id |-> user_id]
    /\ UNCHANGED <<clock, registryFrame>>

\* room.update_user_cursor(user_id, position, selection_start, selection_end)
update_user_cursor(room_id, user_id) ==
    /\ room_id \in DOMAIN rooms
    /\ \E cursor \in Cursors :
          /\ rooms' = [rooms EXCEPT ![room_id] =
                          UpdateUserCursor(@, user_id, cursor[1], cursor[2],
                                           cursor[3], clock)]
          /\ observed' = [call |-> "update_user_cursor", room_id |-> room_id,
                          user_id |-> user_id, position |-> cursor[1],
                          selection_start |-> cursor[2],
                          selection_end |-> cursor[3],
                          ret |-> UpdateUserCursorResult(rooms[room_id],
                                                         user_id)]
    /\ UNCHANGED <<clock, registryFrame>>

\* room.crdt.apply_operation(...): the first insert into the document of a room
edit(room_id) ==
    /\ room_id \in DOMAIN rooms
    /\ rooms[room_id].crdt.version = 0
    /\ rooms' = [rooms EXCEPT ![room_id].crdt =
                    ApplyOperation(@, [op_type |-> "insert", position |-> 0,
                                       position_is_int |-> TRUE,
                                       content |-> <<"a">>,
                                       client_id |-> "user1",
                                       timestamp |-> clock,
                                       version |-> 0]).crdt]
    /\ observed' = [call |-> "apply_operation", room_id |-> room_id]
    /\ UNCHANGED <<clock, registryFrame>>

\* room_manager.delete_room(room_id)
delete_room(room_id) ==
    /\ rooms' = DeleteRoom(rooms, room_id)
    /\ observed' = [call |-> "delete_room", room_id |-> room_id,
                    ret |-> DeleteRoomResult(rooms, room_id)]
    /\ UNCHANGED <<clock, registryFrame>>

\* room_manager.cleanup_inactive_rooms()
cleanup_inactive_rooms ==
    /\ rooms' = CleanupInactiveRooms(rooms, MaxAgeHours, clock)
    /\ observed' = [call |-> "cleanup_inactive_rooms",
                    ret |-> CleanupInactiveRoomsResult(rooms, MaxAgeHours,
                                                       clock)]
    /\ UNCHANGED <<clock, registryFrame>>

\* time passes between two calls
elapse ==
    /\ \E later \in Instants : later > clock /\ clock' = later
    /\ observed' = NoCall
    /\ UNCHANGED <<rooms, registryFrame>>

NextRegistry ==
    \/ create_room
    \/ \E room_id \in RoomIds, user_id \in RegistryUsers :
          \/ add_user(room_id, user_id)
          \/ remove_user(room_id, user_id)
          \/ update_user_cursor(room_id, user_id)
    \/ \E room_id \in RoomIds :
          \/ edit(room_id)
          \/ delete_room(room_id)
    \/ cleanup_inactive_rooms
    \/ elapse

SpecRegistry == InitRegistry /\ [][NextRegistry]_vars

---------------------------------------------------------------------------
(* The document driven through its methods, as the unit tests drive it *)

Init ==
    /\ crdt = NewCRDT("test-doc")
    /\ history = <<>>
    /\ observed = NoCall
    /\ ServerStarted
    /\ redis_client = FALSE
    /\ redis_pubsub = Started(redis_client)

apply_operation ==
    /\ Len(history) < MaxOps
    /\ \E operation \in Operations :
          LET r == ApplyOperation(crdt, operation)
          IN  /\ crdt' = r.crdt
              /\ history' = Append(history,
                     [call |-> "apply_operation", operation |-> operation,
                      ret |-> r.ret])
    /\ observed' = NoCall
    /\ UNCHANGED <<serverVars, clientVars>>

set_content ==
    /\ Len(history) < MaxOps
    /\ \E content \in Texts(MaxPayload) :
          /\ crdt' = SetContent(crdt, content)
          /\ history' = Append(history,
                 [call |-> "set_content", content |-> content])
    /\ observed' = NoCall
    /\ UNCHANGED <<serverVars, clientVars>>

Next == apply_operation \/ set_content

get_operations_since ==
    /\ \E version \in 0..MaxOps :
          observed' = [call |-> "get_operations_since", version |-> version,
                       ret |-> GetOperationsSince(crdt, version)]
    /\ UNCHANGED <<crdt, history, serverVars, clientVars>>

get_state ==
    /\ observed' = [call |-> "get_state", ret |-> GetState(crdt)]
    /\ UNCHANGED <<crdt, history, serverVars, clientVars>>

NextDoc ==
    \/ apply_operation
    \/ set_content
    \/ get_operations_since
    \/ get_state

SpecDoc == Init /\ [][NextDoc]_vars

Spec == Init /\ [][Next]_vars

---------------------------------------------------------------------------
(* What the calls recorded in history say *)

IsApply(h) == h.call = "apply_operation"
IsSetContent(h) == h.call = "set_content"

\* the number of set_content calls made so far
NumSetContent == Cardinality({i \in 1..Len(history) : IsSetContent(history[i])})

\* a step that is a call of apply_operation
ApplyStep ==
    /\ Len(history') = Len(history) + 1
    /\ IsApply(Last(history'))

\* a call of apply_operation that returned True, with an operation of this kind
AppliedStep(op_type) ==
    /\ ApplyStep
    /\ Last(history').ret
    /\ Last(history').operation.op_type = op_type

\* an operation the interface calls malformed: a negative position, or a
\* kind other than insert or delete
Malformed(operation) ==
    /\ operation.position_is_int
    /\ \/ operation.position < 0
       \/ operation.op_type \notin {"insert", "delete"}

\* a valid insert or delete
Valid(operation) ==
    /\ operation.position_is_int
    /\ operation.position >= 0
    /\ operation.op_type \in {"insert", "delete"}

\* the text obtained from `text` by applying the log entries in order, each
\* at its logged position
RECURSIVE Replay(_, _)
Replay(text, entries) ==
    IF entries = <<>> THEN text
    ELSE Replay(EditText(text, Head(entries)), Tail(entries))

---------------------------------------------------------------------------
(* C1 *)

\* C1 as stated: in every state reached by apply_operation and set_content
\* calls, version equals the number of log entries.  set_content breaks it.
C1_VersionIsLogLength == crdt.version = Len(crdt.operations)

\* C1 amended: version equals the number of log entries plus the number of
\* set_content calls made, so it is the log's length exactly as long as
\* set_content was never called.
C1_VersionIsLogLengthPlusSnapshots ==
    crdt.version = Len(crdt.operations) + NumSetContent

\* an operation applied after a snapshot was loaded
C1_Witness ==
    /\ Len(history) = 2
    /\ IsSetContent(history[1])
    /\ IsApply(history[2]) /\ history[2].ret
    /\ Len(crdt.operations) = 1

---------------------------------------------------------------------------
(* C2 *)

\* C2 as stated: in every state reached by apply_operation and set_content
\* calls, the text is the replay of the log from the empty text.
C2_TextIsReplayFromEmpty == crdt.content = Replay(<<>>, crdt.operations)

\* the index in history of the last set_content call, 0 when there is none
LastSetContent ==
    LET S == {i \in 1..Len(history) : IsSetContent(history[i])}
    IN  IF S = {} THEN 0 ELSE CHOOSE i \in S : \A j \in S : j <= i

\* the number of operations applied after the call at index i of history
AppliedAfter(i) ==
    Cardinality({j \in (i + 1)..Len(history) :
                    IsApply(history[j]) /\ history[j].ret})

\* C2 amended: the text is the replay, from the text last given to
\* set_content (the empty text when set_content was never called), of the
\* log entries appended since that call, each at its logged position with
\* the same clamping rules; so without set_content it is the replay of the
\* whole log from the empty text.
C2_TextIsReplayFromSnapshot ==
    LET i == LastSetContent
        base == IF i = 0 THEN <<>> ELSE history[i].content
        n == Len(crdt.operations)
    IN  crdt.content = Replay(base, SubSeq(crdt.operations,
                                           n - AppliedAfter(i) + 1, n))

\* two operations applied, the second one shifted by the first
C2_Witness ==
    /\ Len(crdt.operations) = 2
    /\ NumSetContent = 0
    /\ IsApply(history[2])
    /\ history[2].operation.position # crdt.operations[2].position
    /\ crdt.content # <<>>

---------------------------------------------------------------------------
(* C3 *)

\* C3: apply_operation called with a malformed operation (a negative
\* position, or a kind other than insert or delete) returns False and leaves
\* the text, the version, the log and the client_versions map unchanged.
C3_MalformedIsRejected ==
    [][(ApplyStep /\ Malformed(Last(history').operation))
          => (~Last(history').ret /\ crdt' = crdt)]_vars

\* a malformed operation was handed to apply_operation
C3_Witness ==
    /\ history # <<>>
    /\ IsApply(Last(history))
    /\ Malformed(Last(history).operation)

---------------------------------------------------------------------------
(* C5 *)

\* the position C5 describes: start from the submitted position and visit the
\* log entries i, i+1, ... in log order; an entry counts when its version is
\* greater than client_version
RECURSIVE ShiftedPosition(_, _, _, _)
ShiftedPosition(log, i, client_version, p) ==
    IF i > Len(log) THEN p
    ELSE LET e == log[i]
             n == Len(e.content)
             q == IF e.version <= client_version THEN p
                  ELSE IF e.op_type = "insert" /\ e.position <= p THEN p + n
                  ELSE IF e.op_type = "delete" /\ e.position < p
                       THEN p - (IF n <= p - e.position THEN n
                                 ELSE p - e.position)
                  ELSE p
         IN  ShiftedPosition(log, i + 1, client_version, q)

\* the document of test_operation_transformation after user1's insert
HelloWorld ==
    ApplyOperation(
        [NewCRDT("test-doc") EXCEPT !.content = <<"H", "e", "l", "l", "o">>],
        [op_type |-> "insert", position |-> 5, position_is_int |-> TRUE,
         content |-> <<" ", "W", "o", "r", "l", "d">>, client_id |-> "user1",
         timestamp |-> 0, version |-> 0]).crdt

\* user2's insert of test_operation_transformation
Bang ==
    [op_type |-> "insert", position |-> 5, position_is_int |-> TRUE,
     content |-> <<"!">>, client_id |-> "user2", timestamp |-> 0,
     version |-> 0]

\* C5: for every operation and every log, the transformed position is the
\* submitted position shifted, in log order, by exactly the entries whose
\* version is greater than the submitter's client version (0 if absent): a
\* logged insert at or before the running position adds its payload length,
\* a logged delete strictly before it subtracts min(payload length, running
\* position - logged position); the result is clamped to at least 0.  A
\* client at version 0 inserting at 5 after another client's 6-character
\* insert at 5 is applied at 11.
C5_TransformShiftsByUnseenEntries ==
    /\ \A operation \in Operations :
          operation.position_is_int =>
             LET cv == IF operation.client_id \in DOMAIN crdt.client_versions
                       THEN crdt.client_versions[operation.client_id] ELSE 0
                 p == ShiftedPosition(crdt.operations, 1, cv, operation.position)
             IN  TransformOperation(crdt, operation).position
                    = (IF p < 0 THEN 0 ELSE p)
    /\ TransformOperation(HelloWorld, Bang).position = 11
    /\ ApplyOperation(HelloWorld, Bang).crdt.content
          = <<"H", "e", "l", "l", "o", " ", "W", "o", "r", "l", "d", "!">>

\* a log holding an insert and a delete, and a client that has seen the
\* first entry only and whose operation the second entry shifts back
C5_Witness ==
    /\ Len(crdt.operations) = 2
    /\ crdt.operations[2].op_type = "delete"
    /\ \E operation \in Operations :
          /\ operation.position_is_int
          /\ ClientVersion(crdt, operation.client_id) = 1
          /\ TransformOperation(crdt, operation).position < operation.position

---------------------------------------------------------------------------
(* C6 *)

\* C6: an insert whose transformed position is p turns the text t into
\* t[0..q) + payload + t[q..) with q = min(p, length(t)); past the end of
\* the text it appends.
C6_InsertSplicesAtClampedPosition ==
    [][AppliedStep("insert") =>
          LET t == crdt.content
              e == Last(crdt'.operations)
              n == Len(e.content)
              q == IF e.position <= Len(t) THEN e.position ELSE Len(t)
          IN  crdt'.content =
                 [i \in 1..(Len(t) + n) |->
                     IF i <= q THEN t[i]
                     ELSE IF i <= q + n THEN e.content[i - q]
                     ELSE t[i - n]]]_vars

\* an insert applied past the end of a non-empty text
C6_Witness ==
    /\ Len(history) = 2
    /\ IsApply(Last(history)) /\ Last(history).ret
    /\ Last(history).operation.op_type = "insert"
    /\ Len(Last(crdt.operations).content) = 1
    /\ Len(crdt.content) = 2
    /\ Last(crdt.operations).position > 1

---------------------------------------------------------------------------
(* C7 *)

\* C7: a delete whose transformed position is p and whose payload has n
\* characters removes exactly min(n, length(t) - s) characters of the text
\* t, starting at s = min(p, length(t)), whatever the payload's characters.
C7_DeleteRemovesClampedSpan ==
    [][AppliedStep("delete") =>
          LET t == crdt.content
              e == Last(crdt'.operations)
              s == IF e.position <= Len(t) THEN e.position ELSE Len(t)
              k == IF Len(e.content) <= Len(t) - s
                   THEN Len(e.content) ELSE Len(t) - s
          IN  crdt'.content =
                 [i \in 1..(Len(t) - k) |->
                     IF i <= s THEN t[i] ELSE t[i + k]]]_vars

\* a delete of two characters at the last character of the text "a", its
\* payload made of another character: the span is cut at the end
C7_Witness ==
    /\ Len(history) = 2
    /\ IsSetContent(history[1]) /\ history[1].content = <<"a", "a">>
    /\ IsApply(history[2]) /\ history[2].ret
    /\ history[2].operation.op_type = "delete"
    /\ history[2].operation.content = <<"b", "b">>
    /\ crdt.operations[1].position = 1
    /\ crdt.content = <<"a">>

---------------------------------------------------------------------------
(* C8 *)

\* C8: a successful apply_operation increases version by exactly 1, appends
\* exactly one entry at the end of the log (the submitted operation at its
\* transformed position, stamped with the new version), and sets the
\* submitter's client version to the new version; the other clients'
\* versions and the earlier log entries stay as they were.
C8_SuccessfulApplyBookkeeping ==
    [][(ApplyStep /\ Last(history').ret) =>
          LET operation == Last(history').operation
              e == Last(crdt'.operations)
          IN  /\ crdt'.version = crdt.version + 1
              /\ Len(crdt'.operations) = Len(crdt.operations) + 1
              /\ \A i \in 1..Len(crdt.operations) :
                    crdt'.operations[i] = crdt.operations[i]
              /\ e.version = crdt'.version
              /\ e.op_type = operation.op_type
              /\ e.content = operation.content
              /\ e.client_id = operation.client_id
              /\ e.position = TransformOperation(crdt, operation).position
              /\ crdt'.client_versions[operation.client_id] = crdt'.version
              /\ DOMAIN crdt'.client_versions
                    = DOMAIN crdt.client_versions \cup {operation.client_id}
              /\ \A c \in DOMAIN crdt.client_versions :
                    c # operation.client_id =>
                       crdt'.client_versions[c] = crdt.client_versions[c]]_vars

\* the second of two clients has had its operation applied
C8_Witness ==
    /\ Len(crdt.operations) = 2
    /\ crdt.operations[1].client_id # crdt.operations[2].client_id
    /\ crdt.client_versions[crdt.operations[1].client_id] = 1
    /\ crdt.client_versions[crdt.operations[2].client_id] = 2

---------------------------------------------------------------------------
(* C9 *)

\* every call so far was apply_operation with a valid insert or delete
OnlyValidOperations ==
    \A i \in 1..Len(history) :
        IsApply(history[i]) /\ Valid(history[i].operation)

\* the payload lengths of the inserts among the first i log entries, summed
RECURSIVE Inserted(_, _)
Inserted(log, i) ==
    IF i = 0 THEN 0
    ELSE Inserted(log, i - 1)
         + (IF log[i].op_type = "insert" THEN Len(log[i].content) ELSE 0)

\* the characters removed by the deletes among the first i log entries,
\* summed: the delete at entry i finds a text of Inserted - Removed
\* characters and removes its clamped span of it
RECURSIVE Removed(_, _)
Removed(log, i) ==
    IF i = 0 THEN 0
    ELSE LET len == Inserted(log, i - 1) - Removed(log, i - 1)
             s == IF log[i].position <= len THEN log[i].position ELSE len
             n == Len(log[i].content)
         IN  Removed(log, i - 1)
             + (IF log[i].op_type = "delete"
                THEN (IF n <= len - s THEN n ELSE len - s) ELSE 0)

\* C9: after any sequence of valid inserts and deletes applied to an
\* initially empty document, the length of the text is the sum of the
\* inserts' payload lengths minus the sum of the characters the deletes
\* actually removed, and version is the number of operations applied.
C9_LengthAndVersionAccounting ==
    OnlyValidOperations =>
       /\ Len(crdt.operations) = Len(history)
       /\ Len(crdt.content)
             = Inserted(crdt.operations, Len(crdt.operations))
               - Removed(crdt.operations, Len(crdt.operations))
       /\ crdt.version = Len(history)

\* an insert of two characters followed by a delete cut short by the end
C9_Witness ==
    /\ OnlyValidOperations
    /\ Len(history) = 2
    /\ crdt.operations[1].op_type = "insert"
    /\ crdt.operations[2].op_type = "delete"
    /\ Len(crdt.operations[2].content) = 2
    /\ Len(crdt.content) = 1

---------------------------------------------------------------------------
(* C10 *)

\* the two calls so far are valid inserts at one position, made by two
\* distinct clients on the empty document
TwoFirstInsertsAtOnePosition ==
    /\ Len(history) = 2
    /\ \A i \in 1..2 :
          /\ IsApply(history[i])
          /\ Valid(history[i].operation)
          /\ history[i].operation.op_type = "insert"
    /\ history[1].operation.client_id # history[2].operation.client_id
    /\ history[1].operation.position = history[2].operation.position

\* C10: from the empty document, when two distinct clients that never
\* submitted before each submit an insert at the same position, both are
\* applied: the text holds the first-arriving payload followed by the
\* second, and version is 2.
C10_ConcurrentInsertsKeptInArrivalOrder ==
    TwoFirstInsertsAtOnePosition =>
       /\ history[1].ret /\ history[2].ret
       /\ crdt.content
             = history[1].operation.content \o history[2].operation.content
       /\ crdt.version = 2

\* "a" then "b", both submitted at position 0
C10_Witness ==
    /\ TwoFirstInsertsAtOnePosition
    /\ history[1].operation.position = 0
    /\ history[1].operation.content = <<"a">>
    /\ history[2].operation.content = <<"b">>
    /\ crdt.content = <<"a", "b">>

---------------------------------------------------------------------------
(* C4 *)

\* the log entry e is covered by one of the first n messages sent to the
\* client of websocket: by the document state of its init message, or by
\* the broadcast of the operation
DeliveredWithin(websocket, e, n) ==
    \E j \in 1..n :
        LET m == received[websocket][j]
        IN  \/ m.type = "init" /\ e.version <= m.document.version
            \/ m.type = "operation" /\ m.operation.timestamp = e.timestamp

\* the task of websocket receives an operation message that its client sent
\* after every entry the room's log holds now had been delivered to it
ReceivesOperationAllSeen(websocket) ==
    /\ task[websocket].pc = "await_receive"
    /\ inbox[websocket] # <<>>
    /\ inbox'[websocket] = Tail(inbox[websocket])
    /\ Head(inbox[websocket]).data.type = "operation"
    /\ task[websocket].room_id \in DOMAIN rooms
    /\ LET log == rooms[task[websocket].room_id].crdt.operations
       IN  \A i \in 1..Len(log) :
              DeliveredWithin(websocket, log[i],
                              Head(inbox[websocket]).sent_after)

\* C4: an operation's position is shifted only by operations its submitter
\* had not seen: an operation submitted after every entry of the room's log
\* had been delivered to its client (through its init document state or
\* through operation broadcasts) is applied at exactly its submitted
\* position, no log entry shifting it.
C4_SeenEntriesShiftNothing ==
    [][\A websocket \in Sockets :
          ReceivesOperationAllSeen(websocket) =>
             LET room_id == task[websocket].room_id
                 log == rooms'[room_id].crdt.operations
                 d == Head(inbox[websocket]).data.operation
             IN  /\ Len(log) = Len(rooms[room_id].crdt.operations) + 1
                 /\ Last(log).position = Get(d, "position", 0)]_vars

\* the first client has had an operation applied and broadcast, and the
\* second one, sent that broadcast, has submitted an operation after it
C4_Witness ==
    \E websocket \in Sockets :
        /\ task[websocket].pc = "await_receive"
        /\ inbox[websocket] # <<>>
        /\ Head(inbox[websocket]).data.type = "operation"
        /\ task[websocket].room_id \in DOMAIN rooms
        /\ LET log == rooms[task[websocket].room_id].crdt.operations
           IN  /\ Len(log) = 1
               /\ log[1].client_id # UserId(websocket)
               /\ Len(log[1].content) > 0
               /\ DeliveredWithin(websocket, log[1],
                                  Head(inbox[websocket]).sent_after)

---------------------------------------------------------------------------
(* C11, C12 *)

\* the entries of log whose version is greater than version, in log order
NewerEntries(log, version) ==
    LET newer == {i \in 1..Len(log) : log[i].version > version}
    IN  [k \in 1..Cardinality(newer) |->
            log[CHOOSE i \in newer :
                    Cardinality({j \in newer : j < i}) = k - 1]]

\* C11: get_operations_since(v) returns exactly the log entries whose
\* version is greater than v, in log order, and changes nothing of the
\* document; a second call with the same v, with no apply_operation in
\* between, returns the same sequence as the first.
C11_OperationsSinceReadsNewerEntries ==
    [][observed'.call = "get_operations_since" =>
          /\ crdt' = crdt
          /\ observed'.ret = NewerEntries(crdt.operations, observed'.version)
          /\ (/\ observed.call = "get_operations_since"
              /\ observed.version = observed'.version)
                => observed'.ret = observed.ret]_vars

\* a call has returned some entries of a log and left some out
C11_Witness ==
    /\ observed.call = "get_operations_since"
    /\ observed.ret # <<>>
    /\ Len(observed.ret) < Len(crdt.operations)

\* C12: set_content(text) sets the text, adds exactly 1 to the version and
\* leaves the log and client_versions as they were; get_state() returns
\* the document's id (for a room's document, the room id), its text and its
\* version, and changes nothing.
C12_SetContentAndGetStateFrame ==
    [][/\ (Len(history') = Len(history) + 1 /\ IsSetContent(Last(history')))
            => /\ crdt'.content = Last(history').content
               /\ crdt'.version = crdt.version + 1
               /\ crdt'.operations = crdt.operations
               /\ crdt'.client_versions = crdt.client_versions
               /\ crdt'.document_id = crdt.document_id
       /\ observed'.call = "get_state"
            => /\ crdt' = crdt
               /\ observed'.ret = [documentId |-> crdt.document_id,
                                   content |-> crdt.content,
                                   version |-> crdt.version]
               /\ \A room_id \in DOMAIN rooms :
                     GetState(rooms[room_id].crdt).documentId = room_id]_vars

\* set_content has replaced the text of a document with a log, and
\* get_state has read the document since
C12_Witness ==
    /\ history # <<>>
    /\ IsSetContent(Last(history))
    /\ crdt.operations # <<>>
    /\ crdt.content # <<>>
    /\ observed.call = "get_state"

---------------------------------------------------------------------------
(* C13 *)

\* the operation messages among those sent to the client of websocket
OperationsReceived(websocket) ==
    SelectSeq(received[websocket], LAMBDA m : m.type = "operation")

\* where in the log of room_id the operation with this timestamp stands
LogIndex(room_id, timestamp) ==
    CHOOSE k \in 1..Len(rooms[room_id].crdt.operations) :
        rooms[room_id].crdt.operations[k].timestamp = timestamp

\* C13: a connection that is sent the broadcasts of two operations applied
\* to its room is sent them in the order in which the operations were
\* applied, the order of the room's log, however the handlers interleave at
\* their sends.
C13_BroadcastsArriveInLogOrder ==
    \A websocket \in DOMAIN received :
        LET ops == OperationsReceived(websocket)
        IN  \A i, j \in 1..Len(ops) :
               i < j => LogIndex("r1", ops[i].operation.timestamp)
                           < LogIndex("r1", ops[j].operation.timestamp)

\* a connection has been sent the broadcasts of two operations that two
\* different handlers applied
C13_Witness ==
    \E websocket \in DOMAIN received :
        LET ops == OperationsReceived(websocket)
        IN  /\ Len(ops) = 2
            /\ ops[1].userId # ops[2].userId

---------------------------------------------------------------------------
(* C14, C15, C17, C19: the hub's methods *)

\* the three maps of the hub
HubMaps == <<active_connections, connection_users, connection_rooms>>

\* websocket is registered under room_id
RegisteredUnder(websocket, room_id) ==
    /\ websocket \in DOMAIN connection_rooms
    /\ connection_rooms[websocket] = room_id

\* websocket is in none of the hub's maps after the step
Unregistered(websocket) ==
    /\ websocket \notin DOMAIN connection_rooms'
    /\ websocket \notin DOMAIN connection_users'
    /\ \A room_id \in DOMAIN active_connections' :
          websocket \notin active_connections'[room_id]

\* the registration of websocket is what it was before the step
StillRegistered(websocket) ==
    /\ websocket \in DOMAIN connection_rooms'
    /\ websocket \in DOMAIN connection_users'
    /\ connection_rooms'[websocket] = connection_rooms[websocket]
    /\ connection_users'[websocket] = connection_users[websocket]
    /\ connection_rooms[websocket] \in DOMAIN active_connections'
    /\ websocket \in active_connections'[connection_rooms[websocket]]

C17_DisconnectReleasesOnce ==
    [][observed'.call = "disconnect" =>
          LET websocket == observed'.websocket
          IN  IF websocket \in DOMAIN connection_rooms
              THEN /\ observed'.ret = <<connection_rooms[websocket],
                                        connection_users[websocket]>>
                   /\ Unregistered(websocket)
                   /\ \A other \in DOMAIN connection_rooms \ {websocket} :
                         StillRegistered(other)
              ELSE /\ observed'.ret = None
                   /\ HubMaps' = HubMaps]_vars

\* a connection that was registered and disconnected has been disconnected
\* once more, while another connection is registered
C17_Witness ==
    /\ observed.call = "disconnect"
    /\ observed.ret = None
    /\ client[observed.websocket].state = "open"
    /\ connection_rooms # EmptyDict

\* get_room_connection_count, read off the room-to-connections map
CountIn(connections, room_id) ==
    Cardinality(Get(connections, room_id, {}))

ConnectionCount(room_id) == CountIn(active_connections, room_id)

\* C19: connect of a connection that is registered, with the room and the
\* user it is registered under, leaves the hub's maps as they were: the
\* connection count of the room is the same and the connection is counted
\* once.
C19_ConnectAgainChangesNothing ==
    [][(/\ observed'.call = "connect"
        /\ RegisteredUnder(observed'.websocket, observed'.room_id)) =>
          /\ HubMaps' = HubMaps
          /\ CountIn(active_connections', observed'.room_id) =
                CountIn(active_connections, observed'.room_id)]_vars

\* connect was called on a registered connection of a room of two, and its
\* accept returned
C19_Witness ==
    /\ observed.call = "connect"
    /\ observed.accept = "returned"
    /\ client[observed.websocket].state = "open"
    /\ received[observed.websocket] # <<>>
    /\ ConnectionCount(observed.room_id) = 2

---------------------------------------------------------------------------
(* C16 *)

\* the broadcast of the task of websocket is suspended between two sends,
\* the task is registered, and the connection set of the room is no longer
\* the one the broadcast began with
SetChangedUnderBroadcast(websocket) ==
    /\ task[websocket].pc = "await_send"
    /\ websocket \in DOMAIN connection_rooms
    /\ Get(active_connections, task[websocket].room_id, {})
          # task[websocket].iterator.initial

\* C16: when a connection of the room was registered or removed while a
\* broadcast to the room was suspended between two sends, the broadcast
\* still ends normally: the handler that issued it is not disconnected, and
\* every other connection that was registered when it began and still is
\* has been sent the message.  (With the broker connected, so that the
\* publish after the broadcast does not fail.)
C16_BroadcastSurvivesSetChange ==
    [][\A websocket \in Sockets :
          (/\ redis_client
           /\ SetChangedUnderBroadcast(websocket)
           /\ task'[websocket].pc # "await_send") =>
              /\ websocket \in DOMAIN connection_rooms'
              /\ \A connection \in task[websocket].iterator.initial
                                      \ {task[websocket].exclude} :
                    (/\ connection \in Get(active_connections,
                                           task[websocket].room_id, {})
                     /\ client[connection].state = "open")
                       => connection \in task[websocket].iterator.visited]_vars

\* a connection was removed from the room while the broadcast of another
\* handler was suspended between two sends
C16_Witness ==
    \E websocket \in Sockets :
        /\ redis_client
        /\ SetChangedUnderBroadcast(websocket)
        /\ client[websocket].state = "open"

---------------------------------------------------------------------------
(* C18 *)

\* C18: in every state another task can observe, the suspensions of
\* connect and of broadcast_to_room included, a connection is in the
\* connection set of a room exactly when connection_rooms sends it to that
\* room and connection_users has an entry for it; so no connection is in
\* the sets of two rooms, and none is in only one of the two maps.
C18_HubMapsAgree ==
    /\ DOMAIN connection_rooms = DOMAIN connection_users
    /\ \A websocket \in DOMAIN client :
       \A room_id \in DOMAIN active_connections
                        \cup {connection_rooms[w] : w \in DOMAIN connection_rooms} :
          (/\ room_id \in DOMAIN active_connections
           /\ websocket \in active_connections[room_id])
          <=> (/\ RegisteredUnder(websocket, room_id)
               /\ websocket \in DOMAIN connection_users)

\* a broadcast is suspended between two sends, its handler registered,
\* while a connection that had joined has been disconnected
C18_Witness ==
    \E websocket, gone \in DOMAIN client :
        /\ task[websocket].pc = "await_send"
        /\ websocket \in DOMAIN connection_rooms
        /\ gone \notin DOMAIN connection_rooms
        /\ received[gone] # <<>>
        /\ ~task[gone].in_try

---------------------------------------------------------------------------
(* C20 *)

\* the client of websocket has been sent init and has not gone away
HasJoined(websocket) ==
    /\ client[websocket].state = "open"
    /\ received[websocket] # <<>>
    /\ received[websocket][1].type = "init"

\* C20: when the broker could not be connected at startup the process
\* serves on alone: a client that has joined an existing room and has not
\* gone away stays registered in the hub and in the users of the room (so
\* that the operations it submits are applied and broadcast to the others).
C20_DegradedModeKeepsClients ==
    (~redis_client /\ \A websocket \in Sockets : client[websocket].state # "closed")
        => \A websocket \in Sockets :
              HasJoined(websocket) =>
                 /\ task[websocket].pc \notin {"done", "failed"}
                 /\ RegisteredUnder(websocket, task[websocket].room_id)
                 /\ websocket \in Get(active_connections,
                                      task[websocket].room_id, {})
                 /\ UserId(websocket)
                       \in DOMAIN rooms[task[websocket].room_id].users

\* without a broker, a client has been sent init
C20_Witness ==
    /\ ~redis_client
    /\ \E websocket \in Sockets : HasJoined(websocket)

---------------------------------------------------------------------------
(* C23 *)

\* the handler of websocket has ended: websocket_endpoint has returned or
\* an exception has left it
Terminated(websocket) == task[websocket].pc \in {"done", "failed"}

\* some room holds a user entry for the user of websocket
HasUserEntry(websocket) ==
    \E room_id \in DOMAIN rooms : UserId(websocket) \in DOMAIN rooms[room_id].users

\* websocket is in one of the hub's maps
InHub(websocket) ==
    \/ websocket \in DOMAIN connection_rooms
    \/ websocket \in DOMAIN connection_users
    \/ \E room_id \in DOMAIN active_connections :
          websocket \in active_connections[room_id]

\* C23: once the handler of a connection has ended, for whatever reason (the
\* client went away, a send or receive failed, the accept failed, the hub
\* dropped the connection after a failed send), the hub holds no
\* registration of the connection and no room holds an entry for its user.
C23_NothingSurvivesTheHandler ==
    \A websocket \in DOMAIN task :
        Terminated(websocket) => ~InHub(websocket) /\ ~HasUserEntry(websocket)

\* a handler has ended on a failed accept
C23_Witness ==
    \E websocket \in DOMAIN task :
        /\ task[websocket].pc = "failed"
        /\ task[websocket].room_id \in DOMAIN rooms
        /\ received[websocket] = <<>>

---------------------------------------------------------------------------
(* C26 *)

\* the handler of websocket takes a connection attempt to a room that does
\* not exist, or closes that connection
RefusesUnknownRoom(websocket) ==
    \/ /\ task[websocket].pc = "start"
       /\ task'[websocket].pc # "start"
       /\ task'[websocket].room_id \notin DOMAIN rooms
    \/ /\ task[websocket].pc = "await_close"
       /\ task'[websocket].pc # "await_close"

\* C26: a connection attempt to a room id that does not exist is closed
\* with the room-not-found code and has no other effect: no user is added
\* to a room, no connection is registered, no init is sent, nothing is
\* broadcast and nothing is published.
C26_UnknownRoomIsRefusedWithoutEffect ==
    [][\A websocket \in DOMAIN task :
          RefusesUnknownRoom(websocket) =>
             /\ task'[websocket].pc \in {"await_close", "done"}
             /\ task'[websocket].pc = "done"
                   => client'[websocket].state = "rejected"
             /\ rooms' = rooms
             /\ HubMaps' = HubMaps
             /\ received' = received]_vars

\* a connection attempt to a room that does not exist has been closed while
\* another client is in a room
C26_Witness ==
    \E websocket, other \in DOMAIN task :
        /\ client[websocket].state = "rejected"
        /\ task[websocket].pc = "done"
        /\ other \in DOMAIN connection_rooms

---------------------------------------------------------------------------
(* C24 *)

\* C24: no room leaves the registry, through delete_room or through
\* cleanup_inactive_rooms, while one of its users was active within the
\* last five minutes; a delete_room call on such a room leaves the
\* registry, the room and its document as they were.
C24_RoomsInUseAreKept ==
    [][\A room_id \in DOMAIN rooms :
          GetActiveUsers(rooms[room_id], clock) # {} =>
             /\ room_id \in DOMAIN rooms'
             /\ (observed'.call = "delete_room" /\ observed'.room_id = room_id)
                   => rooms' = rooms]_vars

\* delete_room has returned True and the room is gone
C24_Witness ==
    /\ observed.call = "delete_room"
    /\ observed.ret = TRUE
    /\ observed.room_id \notin DOMAIN rooms

---------------------------------------------------------------------------
(* C28 *)

\* the room a call of update_user_cursor is made on, before the call
CursorRoom == rooms[observed'.room_id]

\* C28: update_user_cursor for a user of the room sets the user's cursor
\* position, selection start and selection end to the values given, sets
\* its last_active to the time of the call and returns True, and changes
\* no other user; for a user who is not in the room it returns False and
\* changes no user and no document.
C28_UpdateUserCursorContract ==
    [][observed'.call = "update_user_cursor" =>
          IF observed'.user_id \in DOMAIN CursorRoom.users
          THEN /\ observed'.ret = TRUE
               /\ rooms' = [rooms EXCEPT
                      ![observed'.room_id].users[observed'.user_id] =
                          [CursorRoom.users[observed'.user_id] EXCEPT
                              !.cursor_position = observed'.position,
                              !.selection_start = observed'.selection_start,
                              !.selection_end = observed'.selection_end,
                              !.last_active = clock]]
          ELSE /\ observed'.ret = FALSE
               /\ rooms' = rooms]_vars

\* update_user_cursor has returned True for a user who had been idle, in a
\* room with a second user and an edited document
C28_Witness ==
    /\ observed.call = "update_user_cursor"
    /\ observed.ret = TRUE
    /\ LET room == rooms[observed.room_id]
       IN  /\ Cardinality(DOMAIN room.users) = 2
           /\ room.crdt.version = 1
           /\ room.users[observed.user_id].last_active = clock
           /\ room.users[observed.user_id].selection_end = Some(2)
           /\ \E other \in DOMAIN room.users :
                 room.users[other].last_active < clock

---------------------------------------------------------------------------
(* C25 *)

\* the loop of websocket takes the client's next message off the connection
Receives(websocket) ==
    /\ task[websocket].pc = "await_receive"
    /\ inbox[websocket] # <<>>
    /\ inbox'[websocket] = Tail(inbox[websocket])

\* the next message of the client of websocket
NextMessage(websocket) == Head(inbox[websocket]).data

\* the next message of the client of websocket is an operation message
NextIsOperation(websocket) ==
    /\ inbox[websocket] # <<>>
    /\ IsObject(NextMessage(websocket))
    /\ Get(NextMessage(websocket), "type", "") = "operation"

\* C25: once a room has been deleted, an operation message received from a
\* connection that had joined it is applied to no document, broadcast to no
\* connection and not published: the loop goes back to waiting for the next
\* message, and no room and no client's received messages change.
C25_DeletedRoomTakesNoOperation ==
    [][\A websocket \in DOMAIN task :
          (/\ Receives(websocket)
           /\ NextIsOperation(websocket)
           /\ task[websocket].room_id \notin DOMAIN rooms) =>
             /\ rooms' = rooms
             /\ received' = received
             /\ task'[websocket].pc = "await_receive"]_vars

\* the room is deleted, and the loop of a connection that had joined it is
\* about to take an operation message that would apply to a document
C25_Witness ==
    \E websocket \in DOMAIN task :
        /\ rooms = EmptyDict
        /\ task[websocket].room_id = "r1"
        /\ websocket \in DOMAIN connection_rooms
        /\ task[websocket].pc = "await_receive"
        /\ NextIsOperation(websocket)
        /\ IsObject(NextMessage(websocket).operation)
        /\ \E other \in DOMAIN connection_rooms :
              other # websocket /\ client[other].state = "open"

---------------------------------------------------------------------------
(* C27 *)

\* the fields an operation has to carry
OperationFields == {"type", "position", "content"}

\* a client message that is not what the protocol describes: a JSON value
\* that is not an object, an object whose type is missing or unknown, or an
\* operation message whose operation is missing, is not an object or lacks
\* a field
IsMalformed(data) ==
    \/ ~IsObject(data)
    \/ /\ IsObject(data)
       /\ Get(data, "type", "") \notin {"operation", "cursor", "ping"}
    \/ /\ IsObject(data)
       /\ Get(data, "type", "") = "operation"
       /\ \/ "operation" \notin DOMAIN data
          \/ ~IsObject(Get(data, "operation", EmptyDict))
          \/ ~(OperationFields \subseteq DOMAIN Get(data, "operation", EmptyDict))

\* C27: a malformed client message is ignored: the sender's connection stays
\* registered in the hub, its user stays in the room, no document changes,
\* nothing is broadcast, and the handler waits for the sender's next
\* message.
C27_MalformedMessagesAreIgnored ==
    [][\A websocket \in DOMAIN task :
          (Receives(websocket) /\ IsMalformed(NextMessage(websocket))) =>
             /\ HubMaps' = HubMaps
             /\ rooms' = rooms
             /\ received' = received
             /\ task'[websocket].pc = "await_receive"]_vars

\* the handler of a connection has ended, the client still there, after a
\* message that was not an object
C27_Witness ==
    \E websocket \in DOMAIN task :
        /\ \A other \in DOMAIN client : client[other].state = "open"
        /\ client[websocket].sent > 0
        /\ task[websocket].pc \in {"await_publish", "done"}
        /\ ~task[websocket].in_try
        /\ websocket \notin DOMAIN connection_rooms

---------------------------------------------------------------------------
(* C29 *)

\* C29: rooms are independent. A step of the handler of a connection of
\* room A (a join, an operation, a cursor update, a disconnect, and what
\* they await) changes, for every other room B, neither its Room (text,
\* version, log, client_versions, users) nor the hub's connection set of B,
\* and delivers nothing to a connection registered under B.
C29_RoomsAreIndependent ==
    [][\A websocket \in DOMAIN task :
          task'[websocket] # task[websocket] =>
             \A room_id \in HubRooms \ {task'[websocket].room_id} :
                /\ Get(rooms', room_id, None) = Get(rooms, room_id, None)
                /\ Get(active_connections', room_id, {})
                      = Get(active_connections, room_id, {})
                /\ \A other \in DOMAIN connection_rooms :
                      connection_rooms[other] = room_id
                         => received'[other] = received[other]]_vars

\* an operation of room r1 is being broadcast while a connection is
\* registered under room r2
C29_Witness ==
    /\ Listener \in DOMAIN connection_rooms
    /\ connection_rooms[Listener] = "r2"
    /\ client[Listener].state = "open"
    /\ \E websocket \in Sockets :
          /\ task[websocket].pc = "await_send"
          /\ task[websocket].room_id = "r1"
          /\ task[websocket].message.type = "operation"

---------------------------------------------------------------------------
(* C30 *)

\* what a client was sent begins with its init and holds no second one
InitFirstAndOnce ==
    \A websocket \in DOMAIN received :
        received[websocket] # <<>> =>
           /\ received[websocket][1].type = "init"
           /\ \A i \in 2..Len(received[websocket]) :
                 received[websocket][i].type # "init"

\* a registered connection whose client is there has been sent its init
AcceptedGetsInit ==
    \A websocket \in DOMAIN connection_rooms :
        client[websocket].state = "open" => received[websocket] # <<>>

\* the init a step delivers carries the state of the room's document as it
\* is at that step
InitCarriesDocument ==
    \A websocket \in DOMAIN received :
        (/\ received'[websocket] # received[websocket]
         /\ Last(received'[websocket]).type = "init") =>
           /\ task'[websocket].room_id \in DOMAIN rooms'
           /\ Last(received'[websocket]).document
                 = GetState(rooms'[task'[websocket].room_id].crdt)
           /\ Last(received'[websocket]).document.documentId
                 = task'[websocket].room_id

\* the handler of websocket is in the loop of the broadcast of its
\* user_joined
JoinBroadcasting(websocket) ==
    /\ task[websocket].pc = "await_send"
    /\ Get(task[websocket].message, "type", "") = "user_joined"

\* the connections of the room when the broadcast of the user_joined of
\* websocket begins, websocket aside
Audience(websocket) ==
    IF task[websocket].pc = "await_init"
    THEN Get(active_connections, task[websocket].room_id, {}) \ {websocket}
    ELSE task[websocket].iterator.initial \ {websocket}

\* other has been sent the user_joined of websocket
ToldOf(other, websocket) ==
    \E i \in 1..Len(received[other]) :
        /\ received[other][i].type = "user_joined"
        /\ received[other][i].user = UserId(websocket)

\* when the broadcast of a user_joined is over, every connection that was
\* in the room when it began, is still registered and has its client has
\* been sent the user_joined
JoinIsAnnounced ==
    \A websocket \in DOMAIN task :
        (/\ JoinBroadcasting(websocket) \/ task[websocket].pc = "await_init"
         /\ ~JoinBroadcasting(websocket)'
         /\ task'[websocket].pc # "await_init") =>
           \A other \in Audience(websocket) :
              (/\ other \in DOMAIN connection_rooms'
               /\ client'[other].state = "open") => ToldOf(other, websocket)'

\* C30: every accepted connection is sent exactly one init, before any
\* other message, carrying the room's id, text and version as they are when
\* it is sent; the user_joined of the new user is delivered to every other
\* connection of the room and never to the joining connection.
C30_InitFirstThenAnnounced ==
    /\ [](InitFirstAndOnce /\ AcceptedGetsInit
            /\ \A websocket \in DOMAIN task : ~ToldOf(websocket, websocket))
    /\ [][InitCarriesDocument /\ JoinIsAnnounced]_vars

\* a third connection has joined a room of two, one of the two has left
\* meanwhile, and the one who stayed is told that the third has left
C30_Witness ==
    /\ received[Listener] # <<>>
    /\ task[Listener].room_id = "r1"
    /\ \E other \in Sockets :
          /\ other \in DOMAIN connection_rooms
          /\ client[other].state = "open"
          /\ \E i \in 1..Len(received[other]) :
                received[other][i] = [type |-> "user_left", userId |-> UserId(Listener)]

---------------------------------------------------------------------------
(* C21 *)

\* the operation is in the log of the document of room r1 of this process
AppliedHere(operation) ==
    /\ "r1" \in DOMAIN rooms
    /\ \E k \in 1..Len(rooms["r1"].crdt.operations) :
          /\ rooms["r1"].crdt.operations[k].client_id = PeerUser
          /\ rooms["r1"].crdt.operations[k].op_type = operation.op_type

\* the clients of this process in room r1 have been sent the operation
BroadcastHere(operation) ==
    \A websocket \in DOMAIN connection_rooms :
        (connection_rooms[websocket] = "r1" /\ client[websocket].state = "open")
           => \E i \in 1..Len(received[websocket]) :
                 received[websocket][i] = PeerMessage(operation)

\* C21: with two processes connected to the broker and serving the same
\* room, an operation applied on one of them is in the end received from
\* the room's channel by the other, applied to the other's document of the
\* room and broadcast to the other's connections in the room.
C21_PeerOperationsArrive ==
    \A operation \in PeerOperations :
        (observed.call = "publish" /\ observed.message = PeerMessage(operation))
           ~> (AppliedHere(operation) /\ BroadcastHere(operation))

\* the peer has published an operation of room r1 and the broker had no
\* subscriber to send it to, while this process has two clients in the room
C21_Witness ==
    /\ observed.call = "publish"
    /\ observed.outcome = "not sent"
    /\ redis_pubsub.listening
    /\ \A websocket \in Sockets :
          /\ websocket \in DOMAIN connection_rooms
          /\ client[websocket].state = "open"

---------------------------------------------------------------------------
(* C22 *)

\* C22: the loop of listen survives bad messages. A message of a subscribed
\* channel whose payload does not decode, or whose handler raises, is
\* dropped, the loop, the subscriptions and the handlers staying as they
\* were; and whatever came before, a message that decodes is passed to the
\* handler registered for its channel.
C22_ListenSurvivesBadMessages ==
    [][(/\ observed'.call = "message"
        /\ observed'.message.type = "message"
        /\ redis_pubsub.running
        /\ observed'.message.channel \in DOMAIN redis_pubsub.listeners) =>
          /\ observed'.outcome \in {"undecodable", "raised", "handled"}
          /\ observed'.outcome = "undecodable"
                <=> JsonLoads(observed'.message.data).raised
          /\ redis_pubsub' = redis_pubsub]_vars

\* a message has been passed to its handler after one that did not decode
\* and one whose handler raised
C22_Witness ==
    /\ observed.call = "message"
    /\ observed.outcome = "handled"
    /\ {"undecodable", "raised"} \subseteq observed.earlier
    /\ redis_pubsub.listening

---------------------------------------------------------------------------
(* C31 *)

\* the text of room_id after the first n entries of its log: no snapshot is
\* loaded into a room's document, which starts empty
TextAfter(room_id, n) ==
    Replay(<<>>, SubSeq(rooms[room_id].crdt.operations, 1, n))

\* the operation message m describes the entry of the log of room_id that
\* it announces: same position, same version, and applied to the text the
\* server had before the entry it gives the text the server had after it
DescribesAppliedEdit(room_id, m) ==
    LET k == LogIndex(room_id, m.operation.timestamp)
        entry == rooms[room_id].crdt.operations[k]
    IN  /\ m.operation.position = entry.position
        /\ m.operation.version = entry.version
        /\ EditText(TextAfter(room_id, k - 1), FromDict(m.operation, 0))
              = TextAfter(room_id, k)

\* C31: every operation message sent to a peer of the room carries the
\* position and the version of the log entry the server made of the edit,
\* so that applying it to the server's text before the edit gives the
\* server's text after the edit.
C31_BroadcastDescribesAppliedEdit ==
    \A websocket \in DOMAIN received :
        \A i \in 1..Len(received[websocket]) :
            received[websocket][i].type = "operation" =>
                DescribesAppliedEdit("r1", received[websocket][i])

\* a peer has been sent the broadcast of a delete that the server shifted
\* past the text: the server's text kept the character that the broadcast
\* operation removes
C31_Witness ==
    \E websocket \in DOMAIN received :
        \E i \in 1..Len(received[websocket]) :
            LET m == received[websocket][i]
            IN  /\ m.type = "operation"
                /\ m.operation.type = "delete"
                /\ LET k == LogIndex("r1", m.operation.timestamp)
                   IN  /\ TextAfter("r1", k) = TextAfter("r1", k - 1)
                       /\ EditText(TextAfter("r1", k - 1),
                                   FromDict(m.operation, 0))
                             # TextAfter("r1", k)

---------------------------------------------------------------------------
(* C32 *)

\* the loop of websocket takes an operation message whose operation is a
\* JSON object, the room being there
Submits(websocket) ==
    /\ Receives(websocket)
    /\ NextIsOperation(websocket)
    /\ IsObject(Get(NextMessage(websocket), "operation", EmptyDict))
    /\ task[websocket].room_id \in DOMAIN rooms

\* what apply_operation returns for the operation websocket submits
Success(websocket) ==
    ApplyOperation(rooms[task[websocket].room_id].crdt,
                   [FromDict(Get(NextMessage(websocket), "operation",
                                 EmptyDict), clock)
                       EXCEPT !.client_id = UserId(websocket)]).ret

\* the handler of websocket is in the loop of the broadcast of an operation
OperationBroadcasting(websocket) ==
    /\ task[websocket].pc = "await_send"
    /\ Get(task[websocket].message, "type", "") = "operation"

\* the timestamp of the operation that websocket submits or broadcasts
SubmittedStamp(websocket) ==
    IF task[websocket].pc = "await_receive" THEN clock
    ELSE task[websocket].message.operation.timestamp

\* the other connections of the room when the broadcast of websocket begins
Peers(websocket) ==
    IF task[websocket].pc = "await_receive"
    THEN Get(active_connections, task[websocket].room_id, {}) \ {websocket}
    ELSE task[websocket].iterator.initial \ {websocket}

\* how many of the messages are the operation stamped so
TimesIn(messages, timestamp) ==
    Cardinality({i \in 1..Len(messages) :
                    /\ messages[i].type = "operation"
                    /\ messages[i].operation.timestamp = timestamp})

\* how many times the client of websocket was sent the operation stamped so
TimesSent(websocket, timestamp) == TimesIn(received[websocket], timestamp)

\* no operation comes back to the connection that submitted it, and none is
\* sent twice to a connection
NoEchoNoRepeat ==
    \A websocket \in DOMAIN received :
        \A i \in 1..Len(received[websocket]) :
            LET m == received[websocket][i]
            IN  m.type = "operation" =>
                   /\ m.userId # UserId(websocket)
                   /\ TimesSent(websocket, m.operation.timestamp) = 1

\* an operation that apply_operation rejects changes no document, reaches
\* no client, and leaves the handler waiting for the next message with
\* nothing published or stored
RejectedIsDropped ==
    \A websocket \in DOMAIN task :
        (Submits(websocket) /\ ~Success(websocket)) =>
           /\ received' = received
           /\ rooms'[task[websocket].room_id].crdt
                 = rooms[task[websocket].room_id].crdt
           /\ task'[websocket].pc = "await_receive"

\* an operation that apply_operation accepts is broadcast
AppliedIsBroadcast ==
    \A websocket \in DOMAIN task :
        (Submits(websocket) /\ Success(websocket)) =>
           \/ OperationBroadcasting(websocket)'
           \/ task'[websocket].pc = "await_publish"

\* when the broadcast of an applied operation is over, every other
\* connection that was in the room when it began, is still registered and
\* has its client has been sent the operation once, and the operation is
\* being published, the store of the text to follow
BroadcastThenPublished ==
    \A websocket \in DOMAIN task :
        (/\ \/ OperationBroadcasting(websocket)
            \/ Submits(websocket) /\ Success(websocket)
         /\ ~OperationBroadcasting(websocket)') =>
           /\ task'[websocket].pc = "await_publish"
           /\ task'[websocket].then = "store"
           /\ \A other \in Peers(websocket) :
                 (/\ other \in DOMAIN connection_rooms'
                  /\ client'[other].state = "open") =>
                    TimesIn(received'[other], SubmittedStamp(websocket)) = 1

\* C32: an operation message is broadcast and published if and only if
\* apply_operation returned True for it. On success the operation is sent
\* once to every other connection of the room, never to the submitting
\* one, and then published; on rejection nothing is sent, published or
\* stored.
C32_BroadcastIffApplied ==
    /\ []NoEchoNoRepeat
    /\ [][RejectedIsDropped /\ AppliedIsBroadcast
            /\ BroadcastThenPublished]_vars

\* an operation was applied for a client that is still there, and its
\* handler has left the broadcast for handle_disconnect: a connection that
\* stayed in the room was never sent the operation
C32_Witness ==
    \E websocket \in Sockets, other \in Connections :
        /\ client[websocket].state = "open"
        /\ client[other].state = "open"
        /\ other \in DOMAIN connection_rooms
        /\ websocket \notin DOMAIN connection_rooms
        /\ ~task[websocket].in_try
        /\ \E k \in 1..Len(rooms["r1"].crdt.operations) :
              LET entry == rooms["r1"].crdt.operations[k]
              IN  /\ entry.client_id = UserId(websocket)
                  /\ TimesSent(other, entry.timestamp) = 0

---------------------------------------------------------------------------
(* C33 *)

\* the handler of the connection that submitted the log entry e is still in
\* the loop of its broadcast
BeingBroadcast(e) ==
    \E websocket \in DOMAIN task :
        /\ OperationBroadcasting(websocket)
        /\ task[websocket].message.operation.timestamp = e.timestamp

\* the log entry e of the room of websocket has reached its client: in the
\* document state of its init, or as an operation broadcast
Reached(websocket, e) ==
    DeliveredWithin(websocket, e, Len(received[websocket]))

\* C33: a client that joins a room while operations are handled misses no
\* edit. Once it has been sent its init, every entry of the log of its room
\* that another connection submitted is covered by the document state of
\* the init or has been sent to it as an operation broadcast, or else the
\* broadcast of the entry is still under way.
C33_JoinerMissesNoEdit ==
    (/\ client[Listener].state = "open"
     /\ received[Listener] # <<>>
     /\ task[Listener].room_id \in DOMAIN rooms) =>
        LET log == rooms[task[Listener].room_id].crdt.operations
        IN  \A k \in 1..Len(log) :
               \/ log[k].client_id = UserId(Listener)
               \/ Reached(Listener, log[k])
               \/ BeingBroadcast(log[k])

\* the third client joined r1 while the broadcast of an operation was under
\* way, its init covering that operation; the handler of the submitter and
\* then its own handler left their loops over the changed set, and an
\* operation applied since has been broadcast without reaching it
C33_Witness ==
    /\ client[Listener].state = "open"
    /\ received[Listener] # <<>>
    /\ received[Listener][1].document.version = 1
    /\ Listener \notin DOMAIN connection_rooms
    /\ task[Listener].room_id = "r1"
    /\ Len(rooms["r1"].crdt.operations) = 2
    /\ ~Reached(Listener, rooms["r1"].crdt.operations[2])
    /\ ~BeingBroadcast(rooms["r1"].crdt.operations[2])

---------------------------------------------------------------------------
(* C34 *)

\* the document after the first n calls recorded in history
RECURSIVE DocAfter(_)
DocAfter(n) ==
    IF n = 0 THEN NewCRDT("test-doc")
    ELSE LET h == history[n]
             doc == DocAfter(n - 1)
         IN  IF IsApply(h) THEN ApplyOperation(doc, h.operation).crdt
             ELSE SetContent(doc, h.content)

\* the text the document had when its version was v
TextAsOf(v) ==
    DocAfter(CHOOSE n \in 0..Len(history) : DocAfter(n).version = v).content

\* the version the last set_content call gave the document, 0 when there
\* was none
SnapshotVersion == DocAfter(LastSetContent).version

\* the entries get_operations_since has just returned for an earlier
\* version bring that version's text to the current text, and there is one
\* entry for each version since
CatchUpIsComplete ==
    /\ Replay(TextAsOf(observed.version), observed.ret) = crdt.content
    /\ Len(observed.ret) = crdt.version - observed.version

---------------------------------------------------------------------------
(* C35 *)

\* C35: every log entry records the position at which it took effect: the
\* entry that a call of apply_operation appends has a position no greater
\* than the length of the text the call found.
C35_LoggedPositionWithinText ==
    [][(ApplyStep /\ Last(history').ret) =>
          Last(crdt'.operations).position <= Len(crdt.content)]_vars

\* an insert past the end of the empty text took effect at 0 and is logged
\* at its submitted position, so that a concurrent insert at 0 of another
\* client is not shifted and lands before it
C35_Witness ==
    /\ Len(history) = 2
    /\ Len(crdt.operations) = 2
    /\ crdt.operations[1].op_type = "insert"
    /\ crdt.operations[1].position = 2
    /\ crdt.operations[1].content = <<"a">>
    /\ crdt.operations[2].op_type = "insert"
    /\ crdt.operations[2].client_id # crdt.operations[1].client_id
    /\ history[2].operation.position = 0
    /\ crdt.operations[2].position = 0
    /\ crdt.content = <<"b", "a">>

=============================================================================
